---- MODULE Spec2Model ----
(***************************************************************************)
(* Model of the Shobha Sarees photo maker: the PlateMaker image            *)
(* composition pipeline (src/api/platemaker_module.py) and its legacy      *)
(* variant (src/platemaker_module.py).                                     *)
(*                                                                         *)
(* Images are modelled by their geometry: width, height and the bounding   *)
(* box of their non-transparent pixels (what Image.getbbox() reports for   *)
(* an RGBA image), <<>> standing for None.  Boxes are <<x0, y0, x1, y1>>   *)
(* with exclusive right and bottom edges, as in Pillow; logo is the box    *)
(* <<lx, ly, lx + width, ly + height>> the brand mark was pasted at.       *)
(***************************************************************************)
EXTENDS Integers, Sequences, FiniteSets, TLC

\* ------------------------------------------------------------------------
\* Configuration constants (src/api/platemaker_module.py:23-32)
\* ------------------------------------------------------------------------
FRAME_W == 2400
FRAME_H == 1800
SIDE_PAD == 30
TOP_PAD == 30
BOTTOM_PAD == 30
BANNER_PAD_Y == 40
MIN_FONT_SIZE == 24
MAX_FONT_SIZE == 120
MAX_API_RETRIES == 2
RETRY_DELAY == 1

\* LOGO_CONFIG: size_ratio 0.15 as a percentage, margin in pixels
LOGO_SIZE_PCT == 15
LOGO_MARGIN == 80

\* ------------------------------------------------------------------------
\* Arithmetic helpers
\* ------------------------------------------------------------------------
Max(a, b) == IF a >= b THEN a ELSE b
Min(a, b) == IF a <= b THEN a ELSE b
Abs(x) == IF x < 0 THEN -x ELSE x

\* Triples <<a, num, den>> of the model's domain on which the IEEE double
\* evaluation of a * (num / den) falls just below the exact integer
\* a*num/den, so that Python's int() yields one less than the quotient.
FloatShort == { <<4231, 2400, 4231>> }

\* int(a * (num / den)) as Python evaluates it on doubles
PyIntScale(a, num, den) ==
    ((a * num) \div den) - (IF <<a, num, den>> \in FloatShort THEN 1 ELSE 0)

\* ------------------------------------------------------------------------
\* Images
\* ------------------------------------------------------------------------
NoBox == <<>>
Img(w, h, b) == [w |-> w, h |-> h, bbox |-> b, logo |-> NoBox]

\* PlateMaker._trim_transparent
TrimPaddingOfLongSide(img) == Max(5, Max(img.w, img.h) \div 100)

TrimPadding(img) == Max(5, Min(img.w, img.h) \div 100)

TrimTransparent(img) ==
    IF img.bbox = NoBox THEN img
    ELSE LET padding == TrimPadding(img)
             x0 == Max(0, img.bbox[1] - padding)
             y0 == Max(0, img.bbox[2] - padding)
             x1 == Min(img.w, img.bbox[3] + padding)
             y1 == Min(img.h, img.bbox[4] + padding)
         IN  Img(x1 - x0, y1 - y0,
                 << img.bbox[1] - x0, img.bbox[2] - y0,
                    img.bbox[3] - x0, img.bbox[4] - y0 >>)

\* Image.resize: Pillow refuses a zero dimension with ValueError; the
\* content box is scaled outwards with the image.
CeilDiv(a, b) == (a + b - 1) \div b

ScaleBox(b, w, h, nw, nh) ==
    IF b = NoBox THEN NoBox
    ELSE << (b[1] * nw) \div w, (b[2] * nh) \div h,
            Min(nw, CeilDiv(b[3] * nw, w)), Min(nh, CeilDiv(b[4] * nh, h)) >>

Returned(v) == [exc |-> "none", val |-> v]
Raised(e, v) == [exc |-> e, val |-> v]

ImageResize(img, nw, nh) ==
    IF nw < 1 \/ nh < 1 THEN Raised("ValueError", img)
    ELSE Returned(Img(nw, nh, ScaleBox(img.bbox, img.w, img.h, nw, nh)))

\* PlateMaker._smart_resize (and the legacy PlateMaker.downsize)
SmartResizeRoundingUp(img, max_w, max_h) ==
    IF img.w <= max_w /\ img.h <= max_h THEN Returned(img)
    ELSE LET byWidth == max_w * img.h <= max_h * img.w
             num == IF byWidth THEN max_w ELSE max_h
             den == IF byWidth THEN img.w ELSE img.h
         IN  ImageResize(img, CeilDiv(img.w * num, den), CeilDiv(img.h * num, den))

SmartResize(img, max_w, max_h) ==
    IF img.w <= max_w /\ img.h <= max_h THEN Returned(img)
    ELSE LET byWidth == max_w * img.h <= max_h * img.w
             num == IF byWidth THEN max_w ELSE max_h
             den == IF byWidth THEN img.w ELSE img.h
             new_w == PyIntScale(img.w, num, den)
             new_h == PyIntScale(img.h, num, den)
         IN  ImageResize(img, new_w, new_h)

\* ------------------------------------------------------------------------
\* Fonts and text measurement
\*
\* A text is [len, adv, asc]: its length in characters, and the width and
\* height of its glyph box in thousandths of an em of the TrueType font.
\* font_system is what load_font finds on the machine: "truetype" (a
\* scalable font whose getbbox works), "nobbox" (a scalable font whose
\* getbbox fails, so the estimate is used) or "default" (no TrueType font
\* loads; ImageFont.load_default() is a fixed bitmap font without a size).
\* ------------------------------------------------------------------------
FontSystems == {"truetype", "nobbox", "default"}

\* PlateMaker.load_font
load_font(fs, size) ==
    IF fs = "default" THEN [kind |-> "default", size |-> 0]
    ELSE [kind |-> fs, size |-> size]

\* PlateMaker._get_text_dimensions: <<width, height>>
GetTextDimensions(text, font) ==
    CASE font.kind = "truetype" ->
            << Max((text.adv * font.size) \div 1000, 0),
               Max((text.asc * font.size) \div 1000, 0) >>
      [] font.kind = "default" -> << 6 * text.len, 11 >>
      [] OTHER ->
            << (text.len * font.size * 6) \div 10, (font.size * 12) \div 10 >>

\* The while loop of PlateMaker._get_optimal_font
RECURSIVE OptimalFontLoop(_, _, _, _, _, _)
OptimalFontLoop(fs, text, max_width, min_size, max_size, best_font) ==
    IF min_size > max_size THEN best_font
    ELSE LET mid_size == (min_size + max_size) \div 2
             font == load_font(fs, mid_size)
             text_width == GetTextDimensions(text, font)[1]
         IN  IF text_width <= max_width - 40
             THEN OptimalFontLoop(fs, text, max_width, mid_size + 1, max_size, font)
             ELSE OptimalFontLoop(fs, text, max_width, min_size, mid_size - 1, best_font)

\* PlateMaker._get_optimal_font
GetOptimalFontNoMargin(fs, text, max_width) ==
    OptimalFontLoop(fs, text, max_width + 40, MIN_FONT_SIZE, MAX_FONT_SIZE,
                    load_font(fs, MIN_FONT_SIZE))

GetOptimalFont(fs, text, max_width) ==
    OptimalFontLoop(fs, text, max_width, MIN_FONT_SIZE, MAX_FONT_SIZE,
                    load_font(fs, MIN_FONT_SIZE))

\* PlateMaker._prepare_text: [font, dims]
PrepareText(fs, text) ==
    LET font == GetOptimalFont(fs, text, FRAME_W - 2 * SIDE_PAD)
    IN  [font |-> font, dims |-> GetTextDimensions(text, font)]

\* PlateMaker.make_banner_text: catalog.upper() + " • 6.30 • D.No " + design.
\* The separator text is 15 characters; labels are [len, adv, asc] texts.
BannerSep == [len |-> 15, adv |-> 6200, asc |-> 760]

make_banner_text(catalog, design) ==
    [len |-> catalog.len + BannerSep.len + design.len,
     adv |-> catalog.adv + BannerSep.adv + design.adv,
     asc |-> Max(BannerSep.asc, Max(catalog.asc, design.asc))]

\* ------------------------------------------------------------------------
\* The legacy PlateMaker (src/platemaker_module.py)
\* ------------------------------------------------------------------------
Legacy_MAX_FONT_SIZE == 180
Legacy_MIN_FONT_SIZE == 40

\* PlateMaker.text_wh: the glyph box of the font, without the estimate
text_wh(text, font) == GetTextDimensions(text, font)

\* PlateMaker.best_font: sizes max_size, max_size - 2, ... down to min_size
RECURSIVE BestFontLoop(_, _, _, _, _)
BestFontLoop(fs, text, max_w, size, min_size) ==
    IF size < min_size THEN load_font(fs, min_size)
    ELSE LET f == load_font(fs, size)
         IN  IF text_wh(text, f)[1] <= max_w THEN f
             ELSE BestFontLoop(fs, text, max_w, size - 2, min_size)

best_font(fs, text, max_w, min_size, max_size) ==
    BestFontLoop(fs, text, max_w, max_size, min_size)

\* ------------------------------------------------------------------------
\* Progress callback
\*
\* status_callback is "none" (None was passed), "noop", or the name of the
\* one message on which the callback raises.  `if status_callback:` calls
\* it only when one was passed; a call appends the message to the
\* notifications the observer has received.
\* ------------------------------------------------------------------------
Messages == << "reading", "removing", "smart", "optimizing", "branding",
               "banner", "composition", "complete" >>

Notify(cb, notes, msg) ==
    IF cb = "none" THEN Returned(notes)
    ELSE IF cb = msg THEN Raised("CallbackError", Append(notes, msg))
    ELSE Returned(Append(notes, msg))

\* ------------------------------------------------------------------------
\* Input bytes
\*
\* An input is [kind, w, h, opaque, corner, poor, edge, api]:
\*   kind    "empty" (no bytes), "invalid" (Image.open/verify refuses them),
\*           "truncated" (header verifies, decoding the pixels fails),
\*           "valid";
\*   w, h    the decoded size;
\*   opaque  content box of the decoded image itself;
\*   corner  content box left by _remove_bg_corner_detection;
\*   poor    what _is_removal_poor says of that result;
\*   edge    content box left by _remove_bg_edge_detection;
\*   api     content box of the image the remote service cuts out of it.
\* ------------------------------------------------------------------------
Decodes(image_file) == image_file.kind = "valid"

\* PlateMaker._read_image_data: the ValueError of either check is re-raised
\* as ImageProcessingError by the outer handler.
ReadImageData(image_file) ==
    IF image_file.kind \in {"empty", "invalid"}
    THEN Raised("ImageProcessingError", image_file)
    ELSE Returned(image_file)

\* ------------------------------------------------------------------------
\* Background removal
\* ------------------------------------------------------------------------
Responses == {"ok200", "bad200", "s429", "s500", "s400", "timeout", "connerr"}

\* The for loop of PlateMaker._remove_background_api from `attempt` on.
\* responses[attempt + 1] is what requests.post does on that attempt.
\* Result: exc, the image, the POSTs made, the time slept before each
\* further attempt (0 when the loop goes on without sleeping), and the
\* increments of api_calls_successful / api_calls_failed.
RECURSIVE ApiLoop(_, _, _, _, _)
ApiLoop(image_file, responses, attempt, posts, waits) ==
    IF attempt >= MAX_API_RETRIES
    THEN [exc |-> "RuntimeError", img |-> Img(0, 0, NoBox), posts |-> posts,
          waits |-> waits, succ |-> 0, fail |-> 1]
    ELSE LET r == responses[attempt + 1]
             last == ~(attempt < MAX_API_RETRIES - 1)
         IN  CASE r = "ok200" ->
                    [exc |-> "none",
                     img |-> Img(image_file.w, image_file.h, image_file.api),
                     posts |-> posts + 1, waits |-> waits, succ |-> 1, fail |-> 0]
               [] r = "bad200" ->
                    [exc |-> "UnidentifiedImageError", img |-> Img(0, 0, NoBox),
                     posts |-> posts + 1, waits |-> waits, succ |-> 1, fail |-> 0]
               [] r = "s429" ->
                    ApiLoop(image_file, responses, attempt + 1, posts + 1,
                            IF last THEN waits
                            ELSE Append(waits, RETRY_DELAY * (2 ^ attempt)))
               [] r \in {"timeout", "connerr"} ->
                    ApiLoop(image_file, responses, attempt + 1, posts + 1,
                            IF last THEN waits ELSE Append(waits, RETRY_DELAY))
               [] OTHER ->
                    ApiLoop(image_file, responses, attempt + 1, posts + 1,
                            IF last THEN waits ELSE Append(waits, 0))

\* PlateMaker._remove_background_api
RemoveBackgroundApi(has_key, image_file, responses) ==
    IF ~has_key
    THEN [exc |-> "RuntimeError", img |-> Img(0, 0, NoBox), posts |-> 0,
          waits |-> <<>>, succ |-> 0, fail |-> 0]
    ELSE ApiLoop(image_file, responses, 0, 0, <<>>)

\* The local heuristic on pixels.  A raster is [w, h, px], px giving the
\* <<R, G, B, A>> of every position <<x, y>>.
CORNER_TOLERANCE == 35
Transparent == <<255, 255, 255, 0>>

ColorDiff(pixel, bg_color) ==
    Abs(pixel[1] - bg_color[1]) + Abs(pixel[2] - bg_color[2])
        + Abs(pixel[3] - bg_color[3])

\* PlateMaker._remove_color_with_tolerance
RemoveColorWithTolerance(img, bg_color, tolerance) ==
    [img EXCEPT !.px =
        [pos \in DOMAIN img.px |->
            IF ColorDiff(img.px[pos], bg_color) < tolerance
            THEN Transparent ELSE img.px[pos]]]

\* corner_samples + edge_samples of _remove_bg_corner_detection
AllSamples(img) ==
    << img.px[<<0, 0>>], img.px[<<img.w - 1, 0>>],
       img.px[<<0, img.h - 1>>], img.px[<<img.w - 1, img.h - 1>>],
       img.px[<<img.w \div 2, 0>>], img.px[<<0, img.h \div 2>>],
       img.px[<<img.w - 1, img.h \div 2>>],
       img.px[<<img.w \div 2, img.h - 1>>] >>

CountOf(sq, x) == Cardinality({ i \in DOMAIN sq : sq[i] = x })

\* Counter(samples).most_common(1)[0][0]: the highest count, the sample
\* met first among those that share it
MostCommon(sq) ==
    sq[CHOOSE i \in DOMAIN sq :
          /\ \A j \in DOMAIN sq : CountOf(sq, sq[j]) <= CountOf(sq, sq[i])
          /\ \A j \in 1 .. i - 1 : CountOf(sq, sq[j]) < CountOf(sq, sq[i])]

\* PlateMaker._remove_bg_corner_detection
RemoveBgCornerDetectionTopLeft(img) ==
    RemoveColorWithTolerance(img, img.px[<<0, 0>>], CORNER_TOLERANCE)

RemoveBgCornerDetection(img) ==
    RemoveColorWithTolerance(img, MostCommon(AllSamples(img)), CORNER_TOLERANCE)

\* PlateMaker._remove_background_fallback: [exc, img, removals]
\* The handler decodes the same bytes again, so bytes that do not decode
\* make it raise; a failing heuristic (scipy missing for the edge method)
\* makes it return the decoded image as it is.
RemoveBackgroundFallback(image_file, scipy) ==
    IF ~Decodes(image_file)
    THEN [exc |-> "OSError", img |-> Img(0, 0, NoBox), removals |-> 0]
    ELSE IF ~image_file.poor
    THEN [exc |-> "none", removals |-> 1,
          img |-> Img(image_file.w, image_file.h, image_file.corner)]
    ELSE IF scipy
    THEN [exc |-> "none", removals |-> 1,
          img |-> Img(image_file.w, image_file.h, image_file.edge)]
    ELSE [exc |-> "none", removals |-> 0,
          img |-> Img(image_file.w, image_file.h, image_file.opaque)]

\* The except branch of PlateMaker._remove_background
RemoveBackgroundHandler(image_file, cb, notes, scipy, api) ==
    LET n == Notify(cb, notes, "smart")
        fb == RemoveBackgroundFallback(image_file, scipy)
    IN  IF n.exc # "none"
        THEN [exc |-> n.exc, img |-> Img(0, 0, NoBox), notes |-> n.val,
              api |-> api, removals |-> 0, strategy |-> "none"]
        ELSE [exc |-> fb.exc, img |-> fb.img, notes |-> n.val,
              api |-> api, removals |-> fb.removals, strategy |-> "local"]

\* PlateMaker._remove_background:
\* [exc, img, notes, api, removals, strategy]
NoApi == [exc |-> "none", img |-> Img(0, 0, NoBox), posts |-> 0,
          waits |-> <<>>, succ |-> 0, fail |-> 0]

RemoveBackground(api_avail, image_file, cb, notes, scipy, responses) ==
    IF api_avail
    THEN LET api == RemoveBackgroundApi(api_avail, image_file, responses)
         IN  IF api.exc = "none"
             THEN [exc |-> "none", img |-> api.img, notes |-> notes,
                   api |-> api, removals |-> 0, strategy |-> "remote"]
             ELSE RemoveBackgroundHandler(image_file, cb, notes, scipy, api)
    ELSE LET n == Notify(cb, notes, "smart")
             fb == RemoveBackgroundFallback(image_file, scipy)
         IN  IF n.exc # "none"
             THEN RemoveBackgroundHandler(image_file, cb, n.val, scipy, NoApi)
             ELSE IF fb.exc # "none"
             THEN RemoveBackgroundHandler(image_file, cb, n.val, scipy, NoApi)
             ELSE [exc |-> "none", img |-> fb.img, notes |-> n.val,
                   api |-> NoApi, removals |-> fb.removals, strategy |-> "local"]

\* ------------------------------------------------------------------------
\* Optimisation, branding, composition
\* ------------------------------------------------------------------------
\* PlateMaker._enhance_image: sharpness, contrast and colour change pixel
\* values only; any failure is caught and the image returned as it is.
EnhanceImage(img) == img

OptimizeImageWithoutResize(img) ==
    Returned(EnhanceImage(TrimTransparent(img)))

\* PlateMaker._optimize_image (enable_enhancement defaults to True)
OptimizeImage(img) ==
    LET r == SmartResize(TrimTransparent(img), FRAME_W, FRAME_H)
    IN  IF r.exc # "none" THEN r ELSE Returned(EnhanceImage(r.val))

\* PlateMaker._add_logo_overlay.  logo_file is [state, w, h]: the asset at
\* LOGO_PATH as it is on disk now ("ok", "missing" or "corrupt").
AddLogoOverlayUnguarded(img, logo_avail, logo_file) ==
    IF ~logo_avail THEN img
    ELSE [img EXCEPT !.logo = <<10, 10, 10 + (img.w * LOGO_SIZE_PCT) \div 100,
                                10 + logo_file.h>>]

AddLogoOverlay(img, logo_avail, logo_file) ==
    IF ~logo_avail THEN img
    ELSE IF logo_file.state # "ok" THEN img
    ELSE LET target_w == (img.w * LOGO_SIZE_PCT) \div 100
             target_h == PyIntScale(logo_file.h, target_w, logo_file.w)
         IN  IF target_w < 1 \/ target_h < 1 THEN img
             ELSE LET lx == Max(10, Min(img.w - target_w - LOGO_MARGIN,
                                        img.w - target_w - 10))
                      ly == Max(10, Min(img.h - target_h - LOGO_MARGIN,
                                        img.h - target_h - 10))
                  IN  [img EXCEPT !.logo =
                          <<lx, ly, lx + target_w, ly + target_h>>]

\* PlateMaker._create_canvas: <<width, height>> of the RGB canvas
CreateCanvasNoBottomPad(banner_height) ==
    << FRAME_W + 2 * SIDE_PAD, TOP_PAD + banner_height + FRAME_H >>

CreateCanvas(banner_height) ==
    << FRAME_W + 2 * SIDE_PAD,
       TOP_PAD + banner_height + FRAME_H + BOTTOM_PAD >>

\* PlateMaker._compose_final_image
NoFinal == [mode |-> "none", w |-> 0, h |-> 0, banner_height |-> 0,
            text |-> <<>>, text_pos |-> <<>>, img_pos |-> <<>>,
            fg |-> Img(0, 0, NoBox)]

ComposeFinalImage(foreground_img, banner_text, font, text_dims) ==
    LET text_width == text_dims[1]
        text_height == text_dims[2]
        banner_height == text_height + 2 * BANNER_PAD_Y
        canvas == CreateCanvas(banner_height)
        text_x == SIDE_PAD + (FRAME_W - text_width) \div 2
        text_y == TOP_PAD + (banner_height - text_height) \div 2
        img_x == SIDE_PAD + (FRAME_W - foreground_img.w) \div 2
        img_y == TOP_PAD + banner_height + (FRAME_H - foreground_img.h) \div 2
    IN  [mode |-> "RGB", w |-> canvas[1], h |-> canvas[2],
         banner_height |-> banner_height,
         text |-> <<banner_text, font>>, text_pos |-> <<text_x, text_y>>,
         img_pos |-> <<img_x, img_y>>, fg |-> foreground_img]

\* ------------------------------------------------------------------------
\* Statistics
\* ------------------------------------------------------------------------
\* PlateMaker.__init__: self.stats; the average is kept as the fraction
\* <<total_processing_time, images_processed>> it is computed from.
InitStats == [images_processed |-> 0, api_calls_successful |-> 0,
              api_calls_failed |-> 0, fallback_removals |-> 0,
              total_processing_time |-> 0,
              average_processing_time |-> <<0, 1>>]

\* PlateMaker._update_stats
UpdateStats(st, processing_time) ==
    LET n == st.images_processed + 1
        t == st.total_processing_time + processing_time
    IN  [st EXCEPT !.images_processed = n,
                   !.total_processing_time = t,
                   !.average_processing_time = <<t, n>>]

\* The counters _remove_background_api and _remove_background_fallback bump
BackgroundStats(st, rb) ==
    [st EXCEPT !.api_calls_successful = @ + rb.api.succ,
               !.api_calls_failed = @ + rb.api.fail,
               !.fallback_removals = @ + rb.removals]

\* ------------------------------------------------------------------------
\* DriveUploader (src/api/google_drive_uploader.py)
\*
\* A file name is [base, stamp]: the requested name and the timestamp put
\* before its extension, 0 for none.  The clock counts half seconds;
\* strftime("%Y%m%d_%H%M%S") keeps whole seconds only.
\* ------------------------------------------------------------------------
Drive_MAX_RETRIES == 3
Drive_RETRY_DELAY == 1
BACKOFF_MULTIPLIER == 2
TicksPerSecond == 2

PlainName(base) == [base |-> base, stamp |-> 0]
Timestamp(now) == now \div TicksPerSecond
Stamped(filename, now) == [filename EXCEPT !.stamp = Timestamp(now)]

\* DriveUploader._resolve_filename_conflict: files is what the folder
\* holds, list_ok whether files().list() answers
ResolveFilenameConflict(filename, files, list_ok, now) ==
    IF ~list_ok THEN Stamped(filename, now)
    ELSE IF \E i \in DOMAIN files : files[i] = filename
    THEN Stamped(filename, now)
    ELSE filename

\* What one attempt of the upload does: the file is created ("ok"), the
\* answer has no id ("noid"), HttpError of some status, or another
\* exception ("exc")
DriveResponses == {"ok", "noid", "h403", "h404", "h429", "h500", "h400", "exc"}

\* The for loop of DriveUploader._upload_with_retries from `attempt` on:
\* [exc, url, attempts, waits]; url "None" is what falling out of the loop
\* would return
RECURSIVE UploadLoop(_, _, _)
UploadLoop(responses, attempt, waits) ==
    IF attempt >= Drive_MAX_RETRIES
    THEN [exc |-> "none", url |-> "None", attempts |-> attempt, waits |-> waits]
    ELSE LET r == responses[attempt + 1]
             more == attempt < Drive_MAX_RETRIES - 1
             backoff == Drive_RETRY_DELAY * (BACKOFF_MULTIPLIER ^ attempt)
             failed == [exc |-> "RuntimeError", url |-> "None",
                        attempts |-> attempt + 1, waits |-> waits]
         IN  CASE r = "ok" ->
                    [exc |-> "none", url |-> "webViewLink",
                     attempts |-> attempt + 1, waits |-> waits]
               [] r \in {"h403", "h404", "h400"} -> failed
               [] r = "h429" ->
                    IF more
                    THEN UploadLoop(responses, attempt + 1,
                                    Append(waits, backoff + attempt * 2))
                    ELSE failed
               [] OTHER ->
                    IF more
                    THEN UploadLoop(responses, attempt + 1,
                                    Append(waits, backoff))
                    ELSE failed

\* DriveUploader._upload_with_retries
UploadWithRetriesReturningNone(responses) ==
    LET r == UploadLoop(responses, 0, <<>>)
    IN  IF r.exc # "none" /\ r.attempts = Drive_MAX_RETRIES
        THEN [r EXCEPT !.exc = "none"] ELSE r

UploadWithRetries(responses) == UploadLoop(responses, 0, <<>>)

\* What files().create() does on one attempt of _create_folder: the folder
\* is created ("ok"), HttpError of some status, or another exception
FolderResponses == {"ok", "h429", "h403", "h500", "exc"}

\* The for loop of DriveUploader._create_folder from `attempt` on:
\* [exc, id, attempts, waits]; id "None" is what falling out of the loop
\* returns
RECURSIVE CreateFolderLoop(_, _, _)
CreateFolderLoop(responses, attempt, waits) ==
    IF attempt >= Drive_MAX_RETRIES
    THEN [exc |-> "none", id |-> "None", attempts |-> attempt, waits |-> waits]
    ELSE LET r == responses[attempt + 1]
             backoff == Drive_RETRY_DELAY * (BACKOFF_MULTIPLIER ^ attempt)
             failed == [exc |-> "RuntimeError", id |-> "None",
                        attempts |-> attempt + 1, waits |-> waits]
         IN  CASE r = "ok" ->
                    [exc |-> "none", id |-> "folder_id",
                     attempts |-> attempt + 1, waits |-> waits]
               [] r = "h429" ->
                    CreateFolderLoop(responses, attempt + 1,
                                     Append(waits, backoff))
               [] r \in {"h403", "h500"} -> failed
               [] OTHER ->
                    IF attempt = Drive_MAX_RETRIES - 1 THEN failed
                    ELSE CreateFolderLoop(responses, attempt + 1,
                                          Append(waits, backoff))

\* DriveUploader._create_folder
CreateFolder(responses) == CreateFolderLoop(responses, 0, <<>>)

\* What files().list() does in get_or_create_folder: a folder is found,
\* none is, HttpError of some status, or another exception
ListOutcomes == {"found", "empty", "h403", "h404", "h500", "exc"}

\* DriveUploader.get_or_create_folder: [exc, id]; every exception of the
\* try block, those of _create_folder included, leaves as RuntimeError
GetOrCreateFolder(listed, responses) ==
    CASE listed = "found" -> [exc |-> "none", id |-> "folder_id"]
      [] listed = "empty" ->
            LET r == CreateFolder(responses)
            IN  [exc |-> r.exc, id |-> r.id]
      [] OTHER -> [exc |-> "RuntimeError", id |-> "None"]

\* ------------------------------------------------------------------------
\* api/main.py: the session, the temporary downloads and upload_images
\* ------------------------------------------------------------------------
SESSION_MAX_AGE_MIN == 120
MAX_FILE_SIZE == 4 * 1024 * 1024
MAX_TOTAL_SIZE == 15 * 1024 * 1024
TEMP_MAX_ITEMS == 100
TEMP_TTL_SECONDS == 60 * 15
\* `if len(files) > 10` in upload_images
MAX_FILES == 10

\* request.session: the keys auth and last_seen (login_time is never read
\* back); session.clear() leaves neither
ClearedSession == [auth |-> FALSE, has_last_seen |-> FALSE, last_seen |-> 0]

login_user(t) == [auth |-> TRUE, has_last_seen |-> TRUE, last_seen |-> t]

logout_user == ClearedSession

is_authenticated(s) == s.auth

\* timedelta(minutes=SESSION_MAX_AGE_MIN), in seconds
SessionMaxAge == SESSION_MAX_AGE_MIN * 60

touch_session_ignoring_age(s, t) ==
    IF ~s.auth
    THEN [ok |-> FALSE, session |-> s]
    ELSE [ok |-> TRUE,
          session |-> [auth |-> s.auth, has_last_seen |-> TRUE,
                       last_seen |-> t]]

\* touch_session: last_seen is the isoformat the code itself wrote, so it
\* always parses; a session without last_seen skips the age check
touch_session(s, t) ==
    IF ~s.auth
    THEN [ok |-> FALSE, session |-> s]
    ELSE IF s.has_last_seen /\ t - s.last_seen > SessionMaxAge
         THEN [ok |-> FALSE, session |-> ClearedSession]
         ELSE [ok |-> TRUE,
               session |-> [auth |-> s.auth, has_last_seen |-> TRUE,
                            last_seen |-> t]]

\* _temp_downloads is a sequence of [token, ts], in insertion order; the
\* data of a token is identified with the token
StoreTokens(store) == { store[i].token : i \in 1 .. Len(store) }

Expired(e, t) == t - e.ts > TEMP_TTL_SECONDS

\* sorted(keys, key=ts)[:k]: the sort is stable, so among equal timestamps
\* the earlier insertion comes first
OldestTokens(store, k) ==
    { store[i].token : i \in
        { i \in 1 .. Len(store) :
            Cardinality({ j \in 1 .. Len(store) :
                            \/ store[j].ts < store[i].ts
                            \/ store[j].ts = store[i].ts /\ j < i }) < k } }

\* sorted(keys, key=ts)[-k:]
NewestTokens(store, k) ==
    { store[i].token : i \in
        { i \in 1 .. Len(store) :
            Cardinality({ j \in 1 .. Len(store) :
                            \/ store[j].ts > store[i].ts
                            \/ store[j].ts = store[i].ts /\ j > i }) < k } }

CleanupTempDownloadsPoppingNewest(store, t) ==
    LET live == SelectSeq(store, LAMBDA e : ~Expired(e, t))
    IN  IF Len(live) > TEMP_MAX_ITEMS
        THEN LET popped == NewestTokens(live, Len(live) - TEMP_MAX_ITEMS)
             IN  SelectSeq(live, LAMBDA e : e.token \notin popped)
        ELSE live

\* _cleanup_temp_downloads
CleanupTempDownloads(store, t) ==
    LET live == SelectSeq(store, LAMBDA e : ~Expired(e, t))
    IN  IF Len(live) > TEMP_MAX_ITEMS
        THEN LET popped == OldestTokens(live, Len(live) - TEMP_MAX_ITEMS)
             IN  SelectSeq(live, LAMBDA e : e.token \notin popped)
        ELSE live

\* _store_temp_download: uuid4 gives a token no earlier call gave
StoreTempDownload(store, issued, t) ==
    [token |-> issued + 1,
     store |-> CleanupTempDownloads(
                   Append(store, [token |-> issued + 1, ts |-> t]), t)]

NoResults == <<>>
Response(route, status) ==
    [route |-> route, status |-> status, detail |-> "", data |-> 0,
     results |-> NoResults, total |-> 0, successful |-> 0, failed |-> 0,
     process_image |-> <<>>]

\* download
DownloadToken(store, token) ==
    IF token \in StoreTokens(store)
    THEN [Response("download", 200) EXCEPT !.data = token]
    ELSE [Response("download", 404) EXCEPT
              !.detail = "File expired or not found"]

\* What can happen to one file of an upload request
FileOutcomes == {"ok", "read_raises", "process_raises", "save_raises",
                 "deliver_raises"}
\* How a request gets past the checks before the loop
PreChecks == {"ok", "content_length", "no_platemaker", "bad_mapping"}

ResultEntry(status, error, url) ==
    [status |-> status, error |-> error, url |-> url]

CountStatus(results, status) ==
    Cardinality({ i \in 1 .. Len(results) : results[i].status = status })

FileStepSkippingOversize(req, idx, total_bytes_seen, store, issued, t) ==
    LET file == req.files[idx]
        seen == total_bytes_seen + file.size
        Next(total, entries, called, st, n) ==
            [stop |-> FALSE, total |-> total, entries |-> entries,
             called |-> called, store |-> st, issued |-> n]
        Error(e) == << ResultEntry("error", e, 0) >>
    IN  IF file.outcome = "read_raises"
        THEN Next(total_bytes_seen, Error("File error"), FALSE, store, issued)
        ELSE IF file.size > MAX_FILE_SIZE
        THEN Next(seen, <<>>, FALSE, store, issued)
        ELSE IF seen > MAX_TOTAL_SIZE
        THEN [stop |-> TRUE, total |-> seen, entries |-> <<>>,
              called |-> FALSE, store |-> store, issued |-> issued]
        ELSE IF file.outcome = "process_raises"
        THEN Next(seen, Error("Processing failed"), TRUE, store, issued)
        ELSE IF file.outcome = "save_raises"
        THEN Next(seen, Error("File error"), TRUE, store, issued)
        ELSE IF req.drive_available
        THEN IF file.outcome = "deliver_raises"
             THEN Next(seen, Error("Upload failed"), TRUE, store, issued)
             ELSE Next(seen, << ResultEntry("success", "", 0) >>, TRUE,
                       store, issued)
        ELSE LET kept == StoreTempDownload(store, issued, t)
             IN  IF file.outcome = "deliver_raises"
                 THEN Next(seen, Error("File error"), TRUE, kept.store,
                           kept.token)
                 ELSE Next(seen, << ResultEntry("success", "", kept.token) >>,
                           TRUE, kept.store, kept.token)

\* One pass of the loop of upload_images, for file idx: whether the request
\* ends here with 413, the entries it appends to results, whether
\* process_image was called, and what it leaves in the store. In the
\* temp-store branch the failure is request.url_for raising, after the store
FileStep(req, idx, total_bytes_seen, store, issued, t) ==
    LET file == req.files[idx]
        seen == total_bytes_seen + file.size
        Next(total, entries, called, st, n) ==
            [stop |-> FALSE, total |-> total, entries |-> entries,
             called |-> called, store |-> st, issued |-> n]
        Error(e) == << ResultEntry("error", e, 0) >>
    IN  IF file.outcome = "read_raises"
        THEN Next(total_bytes_seen, Error("File error"), FALSE, store, issued)
        ELSE IF file.size > MAX_FILE_SIZE
        THEN Next(seen, Error("File too large"), FALSE, store, issued)
        ELSE IF seen > MAX_TOTAL_SIZE
        THEN [stop |-> TRUE, total |-> seen, entries |-> <<>>,
              called |-> FALSE, store |-> store, issued |-> issued]
        ELSE IF file.outcome = "process_raises"
        THEN Next(seen, Error("Processing failed"), TRUE, store, issued)
        ELSE IF file.outcome = "save_raises"
        THEN Next(seen, Error("File error"), TRUE, store, issued)
        ELSE IF req.drive_available
        THEN IF file.outcome = "deliver_raises"
             THEN Next(seen, Error("Upload failed"), TRUE, store, issued)
             ELSE Next(seen, << ResultEntry("success", "", 0) >>, TRUE,
                       store, issued)
        ELSE LET kept == StoreTempDownload(store, issued, t)
             IN  IF file.outcome = "deliver_raises"
                 THEN Next(seen, Error("File error"), TRUE, kept.store,
                           kept.token)
                 ELSE Next(seen, << ResultEntry("success", "", kept.token) >>,
                           TRUE, kept.store, kept.token)

\* The loop of upload_images from file idx on; pi is the list of
\* process_image calls made so far: which file, of how many
RECURSIVE FilesLoop(_, _, _, _, _, _, _, _)
FilesLoop(req, idx, total_bytes_seen, results, pi, store, issued, t) ==
    IF idx > Len(req.files)
    THEN [resp |-> [Response("upload", 200) EXCEPT
                        !.results = results,
                        !.total = Len(req.files),
                        !.successful = CountStatus(results, "success"),
                        !.failed = CountStatus(results, "error"),
                        !.process_image = pi],
          store |-> store, issued |-> issued]
    ELSE
    LET step == FileStep(req, idx, total_bytes_seen, store, issued, t)
        call == [index |-> idx, files |-> Len(req.files)]
    IN  IF step.stop
        THEN [resp |-> [Response("upload", 413) EXCEPT
                            !.detail = "Total size too large",
                            !.results = results,
                            !.process_image = pi],
              store |-> store, issued |-> issued]
        ELSE FilesLoop(req, idx + 1, step.total, results \o step.entries,
                       IF step.called THEN Append(pi, call) ELSE pi,
                       step.store, step.issued, t)

UploadImagesWithoutFileLimit(s, store, issued, t, req) ==
    LET gate == touch_session(s, t)
        Refused(status, detail) ==
            [resp |-> [Response("upload", status) EXCEPT !.detail = detail],
             session |-> gate.session, store |-> store, issued |-> issued]
    IN  IF ~gate.ok THEN Refused(401, "Session expired")
        ELSE IF req.pre = "content_length"
        THEN Refused(413, "Payload too large")
        ELSE IF req.pre = "no_platemaker"
        THEN Refused(503, "Image processing service unavailable")
        ELSE IF req.pre = "bad_mapping"
        THEN Refused(400, "Invalid design mapping")
        ELSE LET r == FilesLoop(req, 1, 0, NoResults, <<>>, store, issued, t)
             IN  [resp |-> r.resp, session |-> gate.session,
                  store |-> r.store, issued |-> r.issued]

\* upload_images
UploadImages(s, store, issued, t, req) ==
    LET gate == touch_session(s, t)
        Refused(status, detail) ==
            [resp |-> [Response("upload", status) EXCEPT !.detail = detail],
             session |-> gate.session, store |-> store, issued |-> issued]
    IN  IF ~gate.ok THEN Refused(401, "Session expired")
        ELSE IF req.pre = "content_length"
        THEN Refused(413, "Payload too large")
        ELSE IF Len(req.files) > MAX_FILES
        THEN Refused(413, "Maximum 10 files allowed")
        ELSE IF req.pre = "no_platemaker"
        THEN Refused(503, "Image processing service unavailable")
        ELSE IF req.pre = "bad_mapping"
        THEN Refused(400, "Invalid design mapping")
        ELSE LET r == FilesLoop(req, 1, 0, NoResults, <<>>, store, issued, t)
             IN  [resp |-> r.resp, session |-> gate.session,
                  store |-> r.store, issued |-> r.issued]

\* ------------------------------------------------------------------------
\* Inputs of the model
\* ------------------------------------------------------------------------
FullBox(w, h) == <<0, 0, w, h>>

ValidImage(w, h, corner, poor, edge, api) ==
    [kind |-> "valid", w |-> w, h |-> h, opaque |-> FullBox(w, h),
     corner |-> corner, poor |-> poor, edge |-> edge, api |-> api]

BadImage(kind) ==
    [kind |-> kind, w |-> 800, h |-> 600, opaque |-> FullBox(800, 600),
     corner |-> FullBox(800, 600), poor |-> FALSE,
     edge |-> FullBox(800, 600), api |-> <<120, 60, 690, 580>>]

\* A studio photo, a photo larger than the frame, a strip that scales to
\* zero height, a small subject on a plain ground, a flat-colour icon too
\* small for the logo, and bytes that are empty, no image, or cut off.
ImageFiles ==
    { ValidImage(800, 600, <<100, 50, 700, 590>>, FALSE,
                 <<90, 40, 710, 600>>, <<120, 60, 690, 580>>),
      ValidImage(4231, 3000, FullBox(4231, 3000), FALSE,
                 FullBox(4231, 3000), <<500, 100, 3900, 3000>>),
      ValidImage(5000, 2, FullBox(5000, 2), FALSE,
                 FullBox(5000, 2), FullBox(5000, 2)),
      ValidImage(1000, 1000, <<400, 400, 600, 600>>, TRUE,
                 <<398, 398, 602, 602>>, <<401, 401, 599, 599>>),
      ValidImage(6, 6, NoBox, TRUE, NoBox, FullBox(6, 6)),
      BadImage("empty"), BadImage("invalid"), BadImage("truncated") }

Text(len, adv, asc) == [len |-> len, adv |-> adv, asc |-> asc]

\* catalog: "" and a name of 60 characters
Catalogs == { Text(0, 0, 0), Text(60, 33000, 740) }
\* design: "12"
Designs == { Text(2, 1100, 700) }

\* No callback, a no-op, and callbacks that raise on one of these messages
RaisingOn == {"banner", "complete"}
Callbacks == {"none", "noop"} \cup RaisingOn

\* The machines modelled: a full install, one whose font has no usable
\* getbbox, and a bare one with neither TrueType fonts nor scipy.
Platforms == { [font_system |-> "truetype", scipy |-> TRUE],
               [font_system |-> "nobbox", scipy |-> TRUE],
               [font_system |-> "default", scipy |-> FALSE] }

LogoStates == {"ok", "missing", "corrupt"}
LogoFile(state) == [state |-> state, w |-> 512, h |-> 180]

\* Calls made on one instance, and the latencies time.time() can measure
MaxCalls == 2
MaxLatency == 1
Latencies == 1 .. MaxLatency

\* ------------------------------------------------------------------------
\* State
\* ------------------------------------------------------------------------
VARIABLES
    api_available,    \* self.api_available
    logo_available,   \* self.logo_available
    stats,            \* self.stats
    logo_file,        \* the asset at LOGO_PATH
    font_system,      \* what load_font finds
    scipy,            \* whether `from scipy import ndimage` succeeds
    pc,               \* how the last process_image call ended
    image_file,       \* arguments of the last call
    catalog,
    design_number,
    status_callback,
    foreground_img,   \* locals of process_image
    banner,
    final_image,      \* what the caller receives
    raised,           \* the exception the caller receives
    notifications,    \* messages the callback has been given
    stages,           \* stages the call has entered
    removal,          \* how _remove_background got its image
    calls,            \* finished calls: arguments, environment and outcome
    u_fn, u_arg, u_ret, u_done,  \* a single call of one pure function
    th_pc,            \* where each thread is in _update_stats
    th_time,          \* the processing_time each thread measured
    th_reg,           \* the value each thread has read and not yet stored
    drive_files,      \* names of the files in the Drive folder, oldest first
    now,              \* the wall clock, in half seconds
    upload_stats,     \* DriveUploader.upload_stats
    up_last,          \* the last upload_image call and how it ended
    session,          \* request.session of the one browser
    temp_downloads,   \* _temp_downloads, in insertion order
    web_now,          \* datetime.utcnow(), in seconds
    next_token,       \* how many tokens uuid4 has handed out
    web_resp,         \* the last route called and its response
    web_used          \* clock advances and stored tokens so far

vars == << api_available, logo_available, stats, logo_file, font_system,
           scipy, pc, image_file, catalog, design_number, status_callback,
           foreground_img, banner, final_image, raised,
           notifications, stages, removal, calls, u_fn, u_arg, u_ret, u_done,
           th_pc, th_time, th_reg, drive_files, now, upload_stats, up_last,
           session, temp_downloads, web_now, next_token, web_resp,
           web_used >>

instance_vars == << api_available, logo_available, font_system, scipy >>
args_vars == << image_file, catalog, design_number, status_callback >>
unit_vars == << u_fn, u_arg, u_ret, u_done >>
thread_vars == << th_pc, th_time, th_reg >>
drive_vars == << drive_files, now, upload_stats, up_last >>
web_vars == << session, temp_downloads, web_now, next_token, web_resp,
              web_used >>

\* The server has started: nobody is logged in, nothing is stored
NoRequest == [resp |-> Response("none", 0), before |-> ClearedSession,
              at |-> 0]
WebIdle ==
    /\ session = ClearedSession
    /\ temp_downloads = <<>>
    /\ web_now = 0
    /\ next_token = 0
    /\ web_resp = NoRequest
    /\ web_used = [ticks |-> 0, stores |-> 0]

\* DriveUploader.__init__: upload_stats; the folder is empty, no upload yet
NoUpload == [requested |-> PlainName(""), final |-> PlainName(""),
             before |-> <<>>, exc |-> "none", url |-> "None"]
InitUploadStats == [total_uploads |-> 0, successful_uploads |-> 0,
                    failed_uploads |-> 0]

DriveIdle ==
    /\ drive_files = <<>>
    /\ now = TicksPerSecond
    /\ upload_stats = InitUploadStats
    /\ up_last = NoUpload

\* Threads that call process_image on the one instance
Threads == {1, 2}
ThreadTimes == {1, 3}

ThreadsIdle ==
    /\ th_pc = [t \in Threads |-> "idle"]
    /\ th_time = [t \in Threads |-> 0]
    /\ th_reg = [t \in Threads |-> 0]

NoError == [type |-> "none", cause |-> "none"]
NoBanner == [text |-> Text(0, 0, 0), font |-> load_font("default", 0),
             dims |-> <<0, 0>>]
NoRemoval == [strategy |-> "none", api |-> "none"]
\* What requests.post can do on each of the attempts of one call
ResponseSeqs == [1 .. MAX_API_RETRIES -> Responses]
NoResponses == [i \in 1 .. MAX_API_RETRIES |-> "connerr"]

UnitIdle ==
    /\ u_fn = "none"
    /\ u_arg = <<>>
    /\ u_ret = <<>>
    /\ u_done = FALSE

\* PlateMaker.__init__ and _init_resources: logo_available is whether the
\* logo file exists at construction; api_available whether a key is set.
Init ==
    /\ api_available \in BOOLEAN
    /\ \E s \in LogoStates :
          /\ logo_file = LogoFile(s)
          /\ logo_available = (s # "missing")
    /\ \E p \in Platforms :
          /\ font_system = p.font_system
          /\ scipy = p.scipy
    /\ stats = InitStats
    /\ pc = "idle"
    /\ image_file = BadImage("empty")
    /\ catalog = Text(0, 0, 0)
    /\ design_number = Text(0, 0, 0)
    /\ status_callback = "none"
    /\ foreground_img = Img(0, 0, NoBox)
    /\ banner = NoBanner
    /\ final_image = NoFinal
    /\ raised = NoError
    /\ notifications = <<>>
    /\ stages = <<>>
    /\ removal = NoRemoval
    /\ calls = {}
    /\ UnitIdle
    /\ ThreadsIdle
    /\ DriveIdle
    /\ WebIdle

\* ------------------------------------------------------------------------
\* PlateMaker.process_image
\*
\* A run is the state of one call as it passes through the try block:
\* [exc, fg, banner, notes, stages, stats, removal, image, time]; exc names
\* the exception that took the call to the except clause, "none" so far;
\* time is the processing_time the call measured last.
\* ------------------------------------------------------------------------
NewRun(st) ==
    [exc |-> "none", fg |-> Img(0, 0, NoBox), banner |-> NoBanner,
     notes |-> <<>>, stages |-> <<>>, stats |-> st, removal |-> NoRemoval,
     image |-> NoFinal, time |-> 0]

\* A stage is entered and its progress message given to the callback
Enter(run, stage, cb, msg) ==
    LET n == Notify(cb, run.notes, msg)
    IN  [run EXCEPT !.stages = Append(@, stage), !.notes = n.val,
                    !.exc = n.exc]

\* process_image lines 160-164
StageReading(run, f, cb) ==
    LET r == Enter(run, "Reading", cb, "reading")
        rd == ReadImageData(f)
    IN  IF r.exc # "none" THEN r ELSE [r EXCEPT !.exc = rd.exc]

\* process_image lines 169-172
StageRemovingBackground(run, f, cb, rs) ==
    IF run.exc # "none" THEN run
    ELSE LET r == Enter(run, "RemovingBackground", cb, "removing")
             rb == RemoveBackground(api_available, f, cb, r.notes, scipy, rs)
         IN  IF r.exc # "none" THEN r
             ELSE [r EXCEPT !.exc = rb.exc, !.notes = rb.notes,
                            !.stats = BackgroundStats(@, rb),
                            !.removal = [strategy |-> rb.strategy,
                                         api |-> rb.api.exc],
                            !.fg = IF rb.exc = "none" THEN rb.img ELSE @]

\* process_image lines 175-178
StageOptimizingFirstCallOnly(run, cb) ==
    IF run.exc # "none" THEN run
    ELSE LET r == Enter(run, "Optimizing", cb, "optimizing")
             o == OptimizeImage(r.fg)
         IN  IF r.exc # "none" \/ run.stats.images_processed > 0 THEN r
             ELSE [r EXCEPT !.exc = o.exc,
                            !.fg = IF o.exc = "none" THEN o.val ELSE @]

StageOptimizing(run, cb) ==
    IF run.exc # "none" THEN run
    ELSE LET r == Enter(run, "Optimizing", cb, "optimizing")
             o == OptimizeImage(r.fg)
         IN  IF r.exc # "none" THEN r
             ELSE [r EXCEPT !.exc = o.exc,
                            !.fg = IF o.exc = "none" THEN o.val ELSE @]

\* process_image lines 181-184
StageBrandingOnlyWithLogo(run, cb) ==
    IF run.exc # "none" \/ ~logo_available THEN run
    ELSE LET r == Enter(run, "Branding", cb, "branding")
         IN  IF r.exc # "none" THEN r
             ELSE [r EXCEPT !.fg = AddLogoOverlay(@, logo_available, logo_file)]

StageBranding(run, cb) ==
    IF run.exc # "none" THEN run
    ELSE LET r == Enter(run, "Branding", cb, "branding")
         IN  IF r.exc # "none" THEN r
             ELSE [r EXCEPT !.fg = AddLogoOverlay(@, logo_available, logo_file)]

\* process_image lines 187-191
StageComposingBanner(run, c, d, cb) ==
    IF run.exc # "none" THEN run
    ELSE LET r == Enter(run, "ComposingBanner", cb, "banner")
             banner_text == make_banner_text(c, d)
             prepared == PrepareText(font_system, banner_text)
         IN  IF r.exc # "none" THEN r
             ELSE [r EXCEPT !.banner = [text |-> banner_text,
                                        font |-> prepared.font,
                                        dims |-> prepared.dims]]

\* process_image lines 194-202
StageComposing(run, cb) ==
    IF run.exc # "none" THEN run
    ELSE LET r == Enter(run, "Composing", cb, "composition")
         IN  IF r.exc # "none" THEN r
             ELSE [r EXCEPT !.image = ComposeFinalImage(r.fg, r.banner.text,
                                         r.banner.font, r.banner.dims)]

\* process_image lines 205-216: the success is counted, then the completion
\* message is given to the callback; if that raises, the except clause runs
\* after the success was counted (t1 <= t2 are the two time readings).
StageDone(run, cb, t1, t2) ==
    IF run.exc # "none"
    THEN [run EXCEPT !.stats = UpdateStats(@, t1), !.time = t1]
    ELSE LET n == Notify(cb, run.notes, "complete")
         IN  IF n.exc # "none"
             THEN [run EXCEPT !.exc = n.exc, !.notes = n.val, !.time = t2,
                              !.stats = UpdateStats(UpdateStats(@, t1), t2)]
             ELSE [run EXCEPT !.notes = n.val, !.stats = UpdateStats(@, t1),
                              !.stages = Append(@, "Done"), !.time = t1]

\* What the caller gets: the image, or ImageProcessingError built from the
\* exception caught by the except clause
OutcomeUnwrapped(run) ==
    IF run.exc = "none"
    THEN [ok |-> TRUE, image |-> run.image, error |-> NoError]
    ELSE [ok |-> FALSE, image |-> run.image,
          error |-> [type |-> run.exc, cause |-> "none"]]

Outcome(run) ==
    IF run.exc = "none"
    THEN [ok |-> TRUE, image |-> run.image, error |-> NoError]
    ELSE [ok |-> FALSE, image |-> NoFinal,
          error |-> [type |-> "ImageProcessingError", cause |-> run.exc]]

\* One call of process_image on the instance: the try block stage by
\* stage, then the return or the except clause
ProcessImage(f, c, d, cb) ==
    /\ Cardinality(calls) < MaxCalls
    /\ \E t1 \in Latencies, t2 \in Latencies :
       \E r1 \in {StageReading(NewRun(stats), f, cb)} :
       \E r2 \in {StageRemovingBackground(r1, f, cb, rs) :
                      rs \in (IF api_available THEN ResponseSeqs
                                               ELSE {NoResponses})} :
       \E r3 \in {StageOptimizing(r2, cb)} :
       \E r4 \in {StageBranding(r3, cb)} :
       \E r5 \in {StageComposingBanner(r4, c, d, cb)} :
       \E r6 \in {StageComposing(r5, cb)} :
       \E run \in {StageDone(r6, cb, t1, t2)} :
       \E out \in {Outcome(run)} :
            /\ t1 <= t2
            /\ image_file' = f
            /\ catalog' = c
            /\ design_number' = d
            /\ status_callback' = cb
            /\ pc' = IF out.ok THEN "done" ELSE "failed"
            /\ foreground_img' = run.fg
            /\ banner' = run.banner
            /\ final_image' = out.image
            /\ raised' = out.error
            /\ notifications' = run.notes
            /\ stages' = run.stages
            /\ removal' = run.removal
            /\ stats' = run.stats
            /\ calls' = calls \cup
                  { [n |-> Cardinality(calls), image_file |-> f,
                     catalog |-> c, design_number |-> d,
                     status_callback |-> cb, logo |-> logo_file.state,
                     removal |-> run.removal, before |-> stats,
                     ok |-> out.ok, image |-> out.image,
                     stages |-> run.stages, time |-> run.time] }
    /\ UNCHANGED << logo_file, instance_vars, unit_vars, thread_vars,
                    drive_vars, web_vars >>

\* The logo asset disappears from disk between two calls
RemoveLogoFile ==
    /\ logo_file.state = "ok"
    /\ logo_file' = LogoFile("missing")
    /\ UNCHANGED << stats, pc, args_vars, foreground_img, banner, final_image,
                    raised, notifications, stages, removal, calls,
                    instance_vars, unit_vars, thread_vars, drive_vars,
                    web_vars >>

Next ==
    \/ \E f \in ImageFiles, c \in Catalogs, d \in Designs, cb \in Callbacks :
          ProcessImage(f, c, d, cb)
    \/ RemoveLogoFile

Spec == Init /\ [][Next]_vars

\* ------------------------------------------------------------------------
\* Single calls of the pure functions of the pipeline
\* ------------------------------------------------------------------------
\* Images given to _trim_transparent: sizes, and content boxes on a grid
\* of offsets from the four edges
TrimSizes == { <<12, 9>>, <<700, 800>>, <<2500, 900>> }
EdgeOffsets == {0, 1, 5, 6, 7, 9, 40}
GridOf(n) == { x \in EdgeOffsets : x <= n } \cup { n - x : x \in { y \in EdgeOffsets : y <= n } }
BoxesOf(w, h) ==
    { <<x0, y0, x1, y1>> : x0 \in GridOf(w), y0 \in GridOf(h),
                           x1 \in GridOf(w), y1 \in GridOf(h) }
TrimArgs ==
    UNION { { Img(sz[1], sz[2], b) :
                b \in { bb \in BoxesOf(sz[1], sz[2]) : bb[1] < bb[3] /\ bb[2] < bb[4] }
                      \cup {NoBox} } : sz \in TrimSizes }

\* Images given to _smart_resize, with the frame of either PlateMaker
ResizeWidths == {1, 2, 100, 2400, 2401, 3000, 4231, 4800, 5000, 5001, 6000, 9000}
ResizeHeights == {1, 2, 3, 1800, 1801, 3000, 3600, 4000, 4001, 6000}
ResizeFrames == { <<FRAME_W, FRAME_H>>, <<5000, 4000>> }
ResizeArgs ==
    { [img |-> Img(w, h, FullBox(w, h)), max_w |-> fr[1], max_h |-> fr[2]] :
        w \in ResizeWidths, h \in ResizeHeights, fr \in ResizeFrames }

\* Labels given to _get_optimal_font, and the widths they must fit
FontTexts ==
    { Text(len, len * per, 760) : len \in {0, 17, 77, 200, 317},
                                  per \in {300, 550, 900} }
FontWidths == { FRAME_W - 2 * SIDE_PAD, 5000, 300, 40 }
FontArgs ==
    { [fs |-> fs, text |-> t, max_width |-> mw] :
        fs \in FontSystems, t \in FontTexts, mw \in FontWidths }

\* Bytes given to _remove_background_fallback, with and without scipy
FallbackArgs ==
    { [image_file |-> f, scipy |-> sp] : f \in ImageFiles, sp \in BOOLEAN }

\* Calls of _remove_background_api: with and without a key, and whatever
\* the service does on each attempt
ApiArgs ==
    { [has_key |-> k, image_file |-> f, responses |-> rs] :
        k \in BOOLEAN, rs \in ResponseSeqs,
        f \in { g \in ImageFiles : g.kind = "valid" /\ g.w = 800 } }

\* Foregrounds given to _add_logo_overlay, and logo assets of three shapes
LogoWidths == {6, 7, 11, 12, 100, 134, 800, 2400}
LogoHeights == {1, 5, 21, 96, 600, 1800}
LogoShapes == { <<512, 180>>, <<100, 400>>, <<300, 300>> }
LogoArgs ==
    { [img |-> Img(w, h, FullBox(w, h)), logo_available |-> TRUE,
       logo_file |-> [state |-> "ok", w |-> sh[1], h |-> sh[2]]] :
        w \in LogoWidths, h \in LogoHeights, sh \in LogoShapes }
    \cup
    { [img |-> Img(800, 600, FullBox(800, 600)), logo_available |-> a,
       logo_file |-> LogoFile(st)] : a \in BOOLEAN, st \in LogoStates }

\* Labels given to best_font, with the size range of either PlateMaker
FontRanges == { <<MIN_FONT_SIZE, MAX_FONT_SIZE>>,
                <<Legacy_MIN_FONT_SIZE, Legacy_MAX_FONT_SIZE>> }
BestFontArgs ==
    { [fs |-> fs, text |-> t, max_w |-> mw, min_size |-> r[1],
       max_size |-> r[2]] :
        fs \in {"truetype", "default"}, t \in FontTexts, mw \in FontWidths,
        r \in FontRanges }

\* Rasters given to _remove_bg_corner_detection: a ground colour, two
\* colours at distance 30 and 35 from it, and the ground colour with
\* alpha 0; 3x2 (two border pixels are sampled twice) and 3x3 (the centre
\* is not sampled)
Ground == <<200, 200, 200, 255>>
Near == <<210, 210, 210, 255>>
Far == <<212, 212, 211, 255>>
Clear == <<200, 200, 200, 0>>
Positions(w, h) == (0 .. w - 1) \X (0 .. h - 1)
Raster(w, h, px) == [w |-> w, h |-> h, px |-> px]
RasterArgs ==
    { Raster(3, 2, px) : px \in [Positions(3, 2) -> {Ground, Near, Far, Clear}] }
    \cup
    { Raster(3, 3, px) : px \in [Positions(3, 3) -> {Ground, Far}] }
    \cup
    { Raster(1, 1, px) : px \in [Positions(1, 1) -> {Ground, Clear}] }

\* What the Drive service does on each attempt of one upload
DriveResponseSeqs == [1 .. Drive_MAX_RETRIES -> DriveResponses]
UploadArgs == { [responses |-> rs] : rs \in DriveResponseSeqs }

\* What the Drive service does during one get_or_create_folder
FolderResponseSeqs == [1 .. Drive_MAX_RETRIES -> FolderResponses]
FolderArgs ==
    { [listed |-> l, responses |-> rs] :
        l \in ListOutcomes, rs \in FolderResponseSeqs }

UnitFns == {"_trim_transparent", "_smart_resize", "_get_optimal_font",
            "_remove_background_fallback", "_remove_background_api",
            "_add_logo_overlay", "best_font", "_remove_bg_corner_detection",
            "_upload_with_retries", "get_or_create_folder"}

UnitArgs(fn) ==
    CASE fn = "_trim_transparent" -> TrimArgs
      [] fn = "_smart_resize" -> ResizeArgs
      [] fn = "_remove_background_fallback" -> FallbackArgs
      [] fn = "_remove_background_api" -> ApiArgs
      [] fn = "_add_logo_overlay" -> LogoArgs
      [] fn = "best_font" -> BestFontArgs
      [] fn = "_remove_bg_corner_detection" -> RasterArgs
      [] fn = "_upload_with_retries" -> UploadArgs
      [] fn = "get_or_create_folder" -> FolderArgs
      [] OTHER -> FontArgs

InitUnit ==
    /\ api_available = FALSE
    /\ logo_file = LogoFile("ok")
    /\ logo_available = TRUE
    /\ font_system = "truetype"
    /\ scipy = TRUE
    /\ stats = InitStats
    /\ pc = "idle"
    /\ image_file = BadImage("empty")
    /\ catalog = Text(0, 0, 0)
    /\ design_number = Text(0, 0, 0)
    /\ status_callback = "none"
    /\ foreground_img = Img(0, 0, NoBox)
    /\ banner = NoBanner
    /\ final_image = NoFinal
    /\ raised = NoError
    /\ notifications = <<>>
    /\ stages = <<>>
    /\ removal = NoRemoval
    /\ calls = {}
    /\ u_fn \in UnitFns
    /\ u_arg \in UnitArgs(u_fn)
    /\ u_ret = <<>>
    /\ u_done = FALSE
    /\ ThreadsIdle
    /\ DriveIdle
    /\ WebIdle

pipeline_vars == << api_available, logo_available, stats, logo_file,
                    font_system, scipy, pc, image_file, catalog,
                    design_number, status_callback, foreground_img, banner,
                    final_image, raised, notifications, stages, removal,
                    calls >>

UnitReturn(fn, ret) ==
    /\ u_fn = fn
    /\ ~u_done
    /\ u_ret' = ret
    /\ u_done' = TRUE
    /\ UNCHANGED << u_fn, u_arg, pipeline_vars, thread_vars, drive_vars,
                    web_vars >>

CallTrimTransparent ==
    UnitReturn("_trim_transparent", TrimTransparent(u_arg))

CallSmartResize ==
    UnitReturn("_smart_resize",
               SmartResize(u_arg.img, u_arg.max_w, u_arg.max_h))

CallGetOptimalFont ==
    UnitReturn("_get_optimal_font",
               GetOptimalFont(u_arg.fs, u_arg.text, u_arg.max_width))

CallRemoveBackgroundFallback ==
    UnitReturn("_remove_background_fallback",
               RemoveBackgroundFallback(u_arg.image_file, u_arg.scipy))

CallRemoveBackgroundApi ==
    UnitReturn("_remove_background_api",
               RemoveBackgroundApi(u_arg.has_key, u_arg.image_file,
                                   u_arg.responses))

CallAddLogoOverlay ==
    UnitReturn("_add_logo_overlay",
               AddLogoOverlay(u_arg.img, u_arg.logo_available, u_arg.logo_file))

CallBestFont ==
    UnitReturn("best_font",
               best_font(u_arg.fs, u_arg.text, u_arg.max_w, u_arg.min_size,
                         u_arg.max_size))

CallRemoveBgCornerDetection ==
    UnitReturn("_remove_bg_corner_detection", RemoveBgCornerDetection(u_arg))

CallUploadWithRetries ==
    UnitReturn("_upload_with_retries", UploadWithRetries(u_arg.responses))

CallGetOrCreateFolder ==
    UnitReturn("get_or_create_folder",
               GetOrCreateFolder(u_arg.listed, u_arg.responses))

NextUnit ==
    \/ CallGetOrCreateFolder
    \/ CallUploadWithRetries
    \/ CallRemoveBgCornerDetection
    \/ CallBestFont
    \/ CallAddLogoOverlay
    \/ CallRemoveBackgroundFallback
    \/ CallRemoveBackgroundApi
    \/ CallTrimTransparent
    \/ CallSmartResize
    \/ CallGetOptimalFont

SpecUnit == InitUnit /\ [][NextUnit]_vars

\* ------------------------------------------------------------------------
\* Two threads in process_image on one instance
\*
\* self.stats is a plain dict and no lock guards it: each `+=` of
\* _update_stats is a read of the entry followed by a write, and another
\* thread may run between the two.  A thread is followed from the moment
\* it has measured processing_time: "idle", "update" (entering
\* _update_stats), "count_read", "count_written", "total_read",
\* "total_written", "done".
\* ------------------------------------------------------------------------
InitThreads ==
    /\ api_available = FALSE
    /\ logo_file = LogoFile("ok")
    /\ logo_available = TRUE
    /\ font_system = "truetype"
    /\ scipy = TRUE
    /\ stats = InitStats
    /\ pc = "idle"
    /\ image_file = BadImage("empty")
    /\ catalog = Text(0, 0, 0)
    /\ design_number = Text(0, 0, 0)
    /\ status_callback = "none"
    /\ foreground_img = Img(0, 0, NoBox)
    /\ banner = NoBanner
    /\ final_image = NoFinal
    /\ raised = NoError
    /\ notifications = <<>>
    /\ stages = <<>>
    /\ removal = NoRemoval
    /\ calls = {}
    /\ UnitIdle
    /\ ThreadsIdle
    /\ DriveIdle
    /\ WebIdle

other_vars_but_drive ==
    << api_available, logo_available, logo_file, font_system, scipy, pc,
       image_file, catalog, design_number, status_callback, foreground_img,
       banner, final_image, raised, notifications, stages, removal, calls,
       unit_vars, web_vars >>
other_vars == << other_vars_but_drive, drive_vars >>

ThreadStep(t, from, to) ==
    /\ th_pc[t] = from
    /\ th_pc' = [th_pc EXCEPT ![t] = to]

\* process_image up to `processing_time = time.time() - start_time`
ThreadMeasures(t) ==
    /\ ThreadStep(t, "idle", "update")
    /\ \E d \in ThreadTimes : th_time' = [th_time EXCEPT ![t] = d]
    /\ UNCHANGED << stats, th_reg, other_vars >>

\* self.stats['images_processed'] += 1: the read ...
ThreadReadsCount(t) ==
    /\ ThreadStep(t, "update", "count_read")
    /\ th_reg' = [th_reg EXCEPT ![t] = stats.images_processed]
    /\ UNCHANGED << stats, th_time, other_vars >>

\* ... and the write
ThreadWritesCount(t) ==
    /\ ThreadStep(t, "count_read", "count_written")
    /\ stats' = [stats EXCEPT !.images_processed = th_reg[t] + 1]
    /\ UNCHANGED << th_time, th_reg, other_vars >>

\* self.stats['total_processing_time'] += processing_time: the read ...
ThreadReadsTotal(t) ==
    /\ ThreadStep(t, "count_written", "total_read")
    /\ th_reg' = [th_reg EXCEPT ![t] = stats.total_processing_time]
    /\ UNCHANGED << stats, th_time, other_vars >>

\* ... and the write
ThreadWritesTotal(t) ==
    /\ ThreadStep(t, "total_read", "total_written")
    /\ stats' = [stats EXCEPT
                    !.total_processing_time = th_reg[t] + th_time[t]]
    /\ UNCHANGED << th_time, th_reg, other_vars >>

\* self.stats['average_processing_time'] = total / count
ThreadWritesAverage(t) ==
    /\ ThreadStep(t, "total_written", "done")
    /\ stats' = [stats EXCEPT !.average_processing_time =
                    <<stats.total_processing_time, stats.images_processed>>]
    /\ UNCHANGED << th_time, th_reg, other_vars >>

NextThreads ==
    \E t \in Threads :
        \/ ThreadMeasures(t)
        \/ ThreadReadsCount(t)
        \/ ThreadWritesCount(t)
        \/ ThreadReadsTotal(t)
        \/ ThreadWritesTotal(t)
        \/ ThreadWritesAverage(t)

SpecThreads == InitThreads /\ [][NextThreads]_vars

\* ------------------------------------------------------------------------
\* Uploads to one Drive folder
\* ------------------------------------------------------------------------
MaxUploads == 3
MaxClock == 5
FileNames == { PlainName("design_12.jpg"), PlainName("catalog") }

InitDrive ==
    /\ api_available = FALSE
    /\ logo_file = LogoFile("ok")
    /\ logo_available = TRUE
    /\ font_system = "truetype"
    /\ scipy = TRUE
    /\ stats = InitStats
    /\ pc = "idle"
    /\ image_file = BadImage("empty")
    /\ catalog = Text(0, 0, 0)
    /\ design_number = Text(0, 0, 0)
    /\ status_callback = "none"
    /\ foreground_img = Img(0, 0, NoBox)
    /\ banner = NoBanner
    /\ final_image = NoFinal
    /\ raised = NoError
    /\ notifications = <<>>
    /\ stages = <<>>
    /\ removal = NoRemoval
    /\ calls = {}
    /\ UnitIdle
    /\ ThreadsIdle
    /\ DriveIdle
    /\ WebIdle

\* DriveUploader.upload_image: folder_ok is whether get_or_create_folder
\* returns, list_ok whether the conflict check can list the folder, up
\* what _upload_with_retries does
UploadImage(filename, folder_ok, list_ok, up) ==
    /\ upload_stats.total_uploads < MaxUploads
    /\ \E final_filename \in
            {ResolveFilenameConflict(filename, drive_files, list_ok, now)} :
       LET ok == folder_ok /\ up.exc = "none"
       IN  /\ drive_files' = IF ok THEN Append(drive_files, final_filename)
                                   ELSE drive_files
           /\ upload_stats' =
                  [upload_stats EXCEPT
                      !.total_uploads = @ + 1,
                      !.successful_uploads = IF ok THEN @ + 1 ELSE @,
                      !.failed_uploads = IF ok THEN @ ELSE @ + 1]
           /\ up_last' = [requested |-> filename,
                          final |-> IF folder_ok THEN final_filename
                                                 ELSE PlainName(""),
                          before |-> drive_files,
                          exc |-> IF ok THEN "none" ELSE "RuntimeError",
                          url |-> IF ok THEN up.url ELSE "None"]
    /\ UNCHANGED << now, stats, other_vars_but_drive, thread_vars >>

\* Half a second passes
Tick ==
    /\ now < MaxClock
    /\ now' = now + 1
    /\ UNCHANGED << drive_files, upload_stats, up_last, stats,
                    other_vars_but_drive, thread_vars >>

\* The ways _upload_with_retries can end, over all the service may do
UploadOutcomes ==
    { [exc |-> UploadWithRetries(rs).exc, url |-> UploadWithRetries(rs).url] :
        rs \in DriveResponseSeqs }

NextDrive ==
    \/ \E up \in UploadOutcomes :
       \E filename \in FileNames, folder_ok \in BOOLEAN, list_ok \in BOOLEAN :
          UploadImage(filename, folder_ok, list_ok, up)
    \/ Tick

SpecDrive == InitDrive /\ [][NextDrive]_vars

\* ------------------------------------------------------------------------
\* The web application: one browser, the routes of api/main.py, the clock
\* ------------------------------------------------------------------------
MaxWebTicks == 3
MaxWebStores == 2

PipelineIdle ==
    /\ api_available = FALSE
    /\ logo_file = LogoFile("ok")
    /\ logo_available = TRUE
    /\ font_system = "truetype"
    /\ scipy = TRUE
    /\ stats = InitStats
    /\ pc = "idle"
    /\ image_file = BadImage("empty")
    /\ catalog = Text(0, 0, 0)
    /\ design_number = Text(0, 0, 0)
    /\ status_callback = "none"
    /\ foreground_img = Img(0, 0, NoBox)
    /\ banner = NoBanner
    /\ final_image = NoFinal
    /\ raised = NoError
    /\ notifications = <<>>
    /\ stages = <<>>
    /\ removal = NoRemoval
    /\ calls = {}

\* The store is empty, or earlier requests of the same second have left it
\* one short of TEMP_MAX_ITEMS
InitWeb ==
    /\ PipelineIdle
    /\ UnitIdle
    /\ ThreadsIdle
    /\ DriveIdle
    /\ session = ClearedSession
    /\ web_now = 0
    /\ web_resp = NoRequest
    /\ web_used = [ticks |-> 0, stores |-> 0]
    /\ \E filled \in {0, TEMP_MAX_ITEMS - 1} :
          /\ temp_downloads = [i \in 1 .. filled |-> [token |-> i, ts |-> 0]]
          /\ next_token = filled

not_web_vars == << pipeline_vars, unit_vars, thread_vars, drive_vars >>

\* A route has answered
Answer(resp, s, store, issued) ==
    /\ web_resp' = [resp |-> resp, before |-> session, at |-> web_now]
    /\ session' = s
    /\ temp_downloads' = store
    /\ next_token' = issued
    /\ web_used' = [web_used EXCEPT !.stores = @ + (issued - next_token)]
    /\ UNCHANGED << web_now, not_web_vars >>

\* login_submit
LoginSubmit(right, expects_json) ==
    IF ~right
    THEN Answer([Response("login_submit", 401) EXCEPT
                     !.detail = "Invalid username or password"],
                session, temp_downloads, next_token)
    ELSE Answer(Response("login_submit", IF expects_json THEN 200 ELSE 303),
                login_user(web_now), temp_downloads, next_token)

\* logout
Logout ==
    Answer([Response("logout", 303) EXCEPT !.detail = "/login"],
           logout_user, temp_downloads, next_token)

\* landing and app_view
Page(route) ==
    LET gate == touch_session(session, web_now)
    IN  Answer(IF gate.ok THEN Response(route, 200)
               ELSE [Response(route, 303) EXCEPT !.detail = "/login"],
               gate.session, temp_downloads, next_token)

Landing == Page("landing")
AppView == Page("app_view")

\* upload_images
WebRequests ==
    { [pre |-> "ok", drive_available |-> d,
       files |-> << [size |-> MAX_FILE_SIZE, outcome |-> "ok"] >>] :
        d \in BOOLEAN }

Upload(req) ==
    /\ web_used.stores < MaxWebStores
    /\ LET r == UploadImages(session, temp_downloads, next_token, web_now,
                             req)
       IN  Answer(r.resp, r.session, r.store, r.issued)

\* download: a token of this run, the first token ever given, or one that
\* was never given
AskedTokens ==
    {0, 1} \cup ((next_token - web_used.stores + 1) .. next_token)

Download(token) ==
    Answer(DownloadToken(temp_downloads, token), session, temp_downloads,
           next_token)

\* Time passes: a second, the life of a download, the life of a session
Advances == {1, TEMP_TTL_SECONDS, SessionMaxAge}

WebTick(d) ==
    /\ web_used.ticks < MaxWebTicks
    /\ web_now' = web_now + d
    /\ web_used' = [web_used EXCEPT !.ticks = @ + 1]
    /\ UNCHANGED << session, temp_downloads, next_token, web_resp,
                    not_web_vars >>

NextWeb ==
    \/ \E right \in BOOLEAN, expects_json \in BOOLEAN :
          LoginSubmit(right, expects_json)
    \/ Logout
    \/ Landing
    \/ AppView
    \/ \E req \in WebRequests : Upload(req)
    \/ \E token \in AskedTokens : Download(token)
    \/ \E d \in Advances : WebTick(d)

SpecWeb == InitWeb /\ [][NextWeb]_vars

\* ------------------------------------------------------------------------
\* Single requests to upload_images
\* ------------------------------------------------------------------------
MaxRequestFiles == 3

\* Byte lengths: at the limit, one byte over, twice the limit
FileSizes == {MAX_FILE_SIZE, MAX_FILE_SIZE + 1, 2 * MAX_FILE_SIZE}
FileChoices == [size : FileSizes, outcome : FileOutcomes]
FileLists == UNION { [1 .. n -> FileChoices] : n \in 1 .. MaxRequestFiles }

\* As many files as are allowed, and one more, of a megabyte each
ManyFiles ==
    { [i \in 1 .. n |-> [size |-> 1024 * 1024, outcome |-> o]] :
        n \in {MAX_FILES, MAX_FILES + 1}, o \in FileOutcomes }

UploadRequests ==
    [pre : {"ok"}, drive_available : BOOLEAN, files : FileLists \cup ManyFiles]
      \cup
    [pre : PreChecks \ {"ok"}, drive_available : {TRUE},
     files : { << [size |-> MAX_FILE_SIZE, outcome |-> "ok"] >> }]

UploadRequestArgs ==
    [session : {login_user(0)}, req : UploadRequests]
      \cup
    [session : {ClearedSession},
     req : [pre : {"ok"}, drive_available : {TRUE},
            files : { << [size |-> MAX_FILE_SIZE, outcome |-> "ok"] >> }]]

InitUpload ==
    /\ PipelineIdle
    /\ ThreadsIdle
    /\ DriveIdle
    /\ WebIdle
    /\ u_fn = "upload_images"
    /\ u_arg \in UploadRequestArgs
    /\ u_ret = <<>>
    /\ u_done = FALSE

\* One request, at second 0, with nothing stored
CallUploadImages ==
    UnitReturn("upload_images",
               UploadImages(u_arg.session, <<>>, 0, 0, u_arg.req))

NextUpload == CallUploadImages

SpecUpload == InitUpload /\ [][NextUpload]_vars

\* ------------------------------------------------------------------------
\* Properties
\* ------------------------------------------------------------------------
UnitDone(fn) == u_fn = fn /\ u_done

\* C2: _get_optimal_font returns the font of the largest size in
\* [MIN_FONT_SIZE, MAX_FONT_SIZE] whose measured width is at most
\* max_width - 40, and the MIN_FONT_SIZE font when no size fits.
FittingSizes(fs, text, max_width) ==
    { sz \in MIN_FONT_SIZE .. MAX_FONT_SIZE :
        GetTextDimensions(text, load_font(fs, sz))[1] <= max_width - 40 }

LargestOf(S) == CHOOSE x \in S : \A y \in S : y <= x

FontFit ==
    UnitDone("_get_optimal_font") =>
        LET fits == FittingSizes(u_arg.fs, u_arg.text, u_arg.max_width)
        IN  u_ret = load_font(u_arg.fs,
                              IF fits = {} THEN MIN_FONT_SIZE
                              ELSE LargestOf(fits))

\* A label for which some but not all sizes fit has been sized
FontFitWitness ==
    /\ UnitDone("_get_optimal_font")
    /\ u_arg.fs = "truetype"
    /\ u_ret.size > MIN_FONT_SIZE
    /\ u_ret.size < MAX_FONT_SIZE

\* C7: _trim_transparent crops to the content box widened by
\* pad = max(5, min(width, height) // 100) and clamped to the image, so the
\* transparent margin left on each side is the smaller of pad and the
\* margin there was; an image without content is returned unchanged.
TrimInvariant ==
    UnitDone("_trim_transparent") =>
        IF u_arg.bbox = NoBox THEN u_ret = u_arg
        ELSE LET pad == IF Min(u_arg.w, u_arg.h) \div 100 > 5
                        THEN Min(u_arg.w, u_arg.h) \div 100 ELSE 5
                 b == u_arg.bbox
                 r == u_ret.bbox
             IN  /\ r # NoBox
                 /\ r[3] - r[1] = b[3] - b[1]
                 /\ r[4] - r[2] = b[4] - b[2]
                 /\ r[1] = Min(pad, b[1])
                 /\ r[2] = Min(pad, b[2])
                 /\ u_ret.w - r[3] = Min(pad, u_arg.w - b[3])
                 /\ u_ret.h - r[4] = Min(pad, u_arg.h - b[4])

\* An image whose margins all exceed a proportional pad has been trimmed
TrimWitness ==
    /\ UnitDone("_trim_transparent")
    /\ u_arg.bbox # NoBox
    /\ Min(u_arg.w, u_arg.h) \div 100 > 5
    /\ u_ret.w < u_arg.w
    /\ u_ret.h < u_arg.h
    /\ u_ret.bbox[1] > 5
    /\ u_ret.h - u_ret.bbox[4] > 5

OutputSize ==
    pc = "done" =>
        /\ final_image.mode = "RGB"
        /\ final_image.w = FRAME_W + 2 * SIDE_PAD
        /\ final_image.h = TOP_PAD + (banner.dims[2] + 2 * BANNER_PAD_Y)
                             + FRAME_H + BOTTOM_PAD

\* A photo larger than the frame has been composed with a scalable font
OutputSizeWitness ==
    /\ pc = "done"
    /\ image_file.w > FRAME_W
    /\ font_system = "truetype"
    /\ banner.dims[2] > 11
    /\ foreground_img.w < image_file.w

\* C3: whenever the remote strategy fails, _remove_background returns the
\* result of the local strategy, so the call goes on to the next stage.
InSeq(x, sq) == \E i \in DOMAIN sq : sq[i] = x

RemoteFailureAbsorbed ==
    \A c \in calls :
        c.removal.api # "none" =>
            /\ c.removal.strategy = "local"
            /\ InSeq("Optimizing", c.stages)

\* C4: _remove_background_fallback never raises; when every heuristic
\* fails it returns the decoded image as it is.
FallbackNeverRaises ==
    UnitDone("_remove_background_fallback") =>
        /\ u_ret.exc = "none"
        /\ (u_arg.image_file.poor /\ ~u_arg.scipy) =>
              u_ret.img = Img(u_arg.image_file.w, u_arg.image_file.h,
                              u_arg.image_file.opaque)

\* C5: a call ends with the fully composed image or with one
\* ImageProcessingError that carries the exception of the stage that
\* failed, and with no image.
AllStages == << "Reading", "RemovingBackground", "Optimizing", "Branding",
                "ComposingBanner", "Composing", "Done" >>

ErrorsWrapped ==
    /\ pc = "failed" =>
          /\ raised.type = "ImageProcessingError"
          /\ raised.cause \in {"ImageProcessingError", "OSError",
                               "ValueError", "CallbackError"}
          /\ (image_file.kind \in {"empty", "invalid"} =>
                 raised.cause = "ImageProcessingError")
          /\ final_image = NoFinal
    /\ pc = "done" =>
          /\ raised = NoError
          /\ final_image.mode = "RGB"
          /\ stages = AllStages

\* A call failed in a stage after reading: a strip that scales to nothing
ErrorsWrappedWitness ==
    /\ pc = "failed"
    /\ raised.cause = "ValueError"
    /\ image_file.kind = "valid"
    /\ InSeq("Optimizing", stages)

\* C6: when the logo file was missing at construction, is missing at call
\* time or cannot be loaded, the call draws no logo and still goes on
\* past the branding stage to its output.
LogoFailureNotFatal ==
    \A c \in calls :
        (~logo_available \/ c.logo # "ok") =>
            /\ c.ok => c.image.fg.logo = NoBox
            /\ InSeq("Branding", c.stages) => InSeq("ComposingBanner", c.stages)

\* The logo was there at construction and gone when a call composed
LogoFailureWitness ==
    /\ logo_available
    /\ \E c \in calls : c.ok /\ c.logo = "missing"
    /\ \E c \in calls : c.ok /\ c.logo = "ok" /\ c.image.fg.logo # NoBox

\* C9: with local background removal forced, two calls with the same
\* bytes, catalog, design number and configuration that return give the
\* same image, whatever the statistics and the earlier calls were.
SameInput(a, b) ==
    /\ a.image_file = b.image_file
    /\ a.catalog = b.catalog
    /\ a.design_number = b.design_number
    /\ a.logo = b.logo

Determinism ==
    ~api_available =>
        \A a \in calls, b \in calls :
            (SameInput(a, b) /\ a.ok /\ b.ok) => a.image = b.image

\* The same input was composed twice, with different statistics before
DeterminismWitness ==
    /\ ~api_available
    /\ \E a \in calls, b \in calls :
          /\ a.n # b.n
          /\ SameInput(a, b) /\ a.ok /\ b.ok
          /\ a.before # b.before
          /\ a.image_file.w > FRAME_W

\* C10: whatever the callback, process_image runs the same stages and
\* returns the same image as with a no-op observer.
CallbackIsObservational ==
    \A a \in calls, b \in calls :
        (SameInput(a, b) /\ a.removal = b.removal /\ b.status_callback = "noop")
            => /\ a.ok = b.ok
               /\ a.image = b.image
               /\ a.stages = b.stages

\* C11: the stages of a call are entered in the one fixed order, none
\* skipped or repeated; a call returns exactly when it went through all of
\* them and otherwise ends in the one failure; the callback is given the
\* stage messages in that order, and the completion message only after
\* the composition.
StageMessage(stage) ==
    CASE stage = "Reading" -> "reading"
      [] stage = "RemovingBackground" -> "removing"
      [] stage = "Optimizing" -> "optimizing"
      [] stage = "Branding" -> "branding"
      [] stage = "ComposingBanner" -> "banner"
      [] stage = "Composing" -> "composition"
      [] OTHER -> "complete"

IsStageNote(m) == m # "smart"

Prefix(sq, n) == SubSeq(sq, 1, n)

LinearStages ==
    pc # "idle" =>
        LET k == Len(stages)
            notes == SelectSeq(notifications, IsStageNote)
        IN  /\ k >= 1 /\ k <= Len(AllStages)
            /\ stages = Prefix(AllStages, k)
            /\ pc \in {"done", "failed"}
            /\ (pc = "done") = (stages = AllStages)
            /\ (pc = "failed") = (raised # NoError)
            /\ status_callback # "none" =>
                  /\ Len(notes) \in {k, k + 1}
                  /\ Len(notes) <= Len(AllStages)
                  /\ \A i \in 1 .. Len(notes) :
                        notes[i] = StageMessage(AllStages[i])
            /\ status_callback = "none" => notifications = <<>>
            /\ InSeq("complete", notifications) =>
                  /\ notifications[Len(notifications)] = "complete"
                  /\ InSeq("Composing", stages)
                  /\ foreground_img.w >= 1

\* A call that was watched failed halfway, after two earlier outcomes of
\* the instance: a full run and a failure in the first stage
LinearStagesWitness ==
    /\ pc = "failed"
    /\ status_callback = "noop"
    /\ Len(stages) = 3
    /\ Len(notifications) >= 3
    /\ \E c \in calls : c.ok /\ c.stages = AllStages

\* C12: _remove_background_api makes at most MAX_API_RETRIES POSTs, and
\* after a 429 or a 5xx answer it sleeps RETRY_DELAY * 2^attempt before
\* the next attempt.
ApiRetriesBackOff ==
    UnitDone("_remove_background_api") =>
        /\ u_ret.posts <= MAX_API_RETRIES
        /\ \A i \in 1 .. u_ret.posts - 1 :
              u_arg.responses[i] \in {"s429", "s500"} =>
                  u_ret.waits[i] = RETRY_DELAY * (2 ^ (i - 1))

\* C19: an answer that is neither 200, 429 nor 5xx ends the call with an
\* exception and no further POST; a further POST follows only a 429, a
\* 5xx, a timeout or a connection error.
NonRetryableEndsCall ==
    UnitDone("_remove_background_api") =>
        /\ \A i \in 1 .. u_ret.posts :
              u_arg.responses[i] = "s400" =>
                  u_ret.posts = i /\ u_ret.exc # "none"
        /\ \A i \in 1 .. u_ret.posts - 1 :
              u_arg.responses[i] \in {"s429", "s500", "timeout", "connerr"}

\* C13: whenever _add_logo_overlay pastes the logo, the box it is pasted
\* at lies within the canvas: 0 <= lx, lx + logo.width <= img.width,
\* 0 <= ly and ly + logo.height <= img.height.
LogoWithinCanvas ==
    (UnitDone("_add_logo_overlay") /\ u_ret.logo # NoBox) =>
        /\ 0 <= u_ret.logo[1]
        /\ u_ret.logo[3] <= u_ret.w
        /\ 0 <= u_ret.logo[2]
        /\ u_ret.logo[4] <= u_ret.h

\* C14: for the same label, size range and width limit, best_font (linear
\* scan, step 2) and the binary search of _get_optimal_font (whose limit
\* is max_width - 40) return the same font: that of the largest size of
\* the range that fits, or of the minimum size when none fits.
SizesThatFit(fs, text, limit, min_size, max_size) ==
    { sz \in min_size .. max_size :
        GetTextDimensions(text, load_font(fs, sz))[1] <= limit }

SearchesAgree ==
    UnitDone("best_font") =>
        LET fits == SizesThatFit(u_arg.fs, u_arg.text, u_arg.max_w,
                                 u_arg.min_size, u_arg.max_size)
            binary == OptimalFontLoop(u_arg.fs, u_arg.text, u_arg.max_w + 40,
                                      u_arg.min_size, u_arg.max_size,
                                      load_font(u_arg.fs, u_arg.min_size))
        IN  /\ u_ret = binary
            /\ u_ret = load_font(u_arg.fs, IF fits = {} THEN u_arg.min_size
                                           ELSE LargestOf(fits))

\* C15: _remove_bg_corner_detection takes as background a colour that no
\* other colour outnumbers among the eight border samples; every pixel
\* whose R, G, B differ from it by less than 35 in sum comes out with
\* alpha 0, every other pixel as it was.
CornerDetection ==
    UnitDone("_remove_bg_corner_detection") =>
        LET samples == AllSamples(u_arg)
        IN  /\ u_ret.w = u_arg.w /\ u_ret.h = u_arg.h
            /\ \E i \in DOMAIN samples :
                  /\ \A j \in DOMAIN samples :
                        CountOf(samples, samples[j]) <= CountOf(samples, samples[i])
                  /\ \A pos \in Positions(u_arg.w, u_arg.h) :
                        LET p == u_arg.px[pos]
                            d == Abs(p[1] - samples[i][1]) + Abs(p[2] - samples[i][2])
                                   + Abs(p[3] - samples[i][3])
                        IN  IF d < 35 THEN u_ret.px[pos][4] = 0
                            ELSE u_ret.px[pos] = p

\* The background was not the colour of the first corner; a pixel at
\* distance 30 was cleared and one at distance 35 kept
CornerDetectionWitness ==
    /\ UnitDone("_remove_bg_corner_detection")
    /\ u_arg.px[<<0, 0>>] = Far
    /\ MostCommon(AllSamples(u_arg)) = Ground
    /\ \E pos \in DOMAIN u_arg.px : u_arg.px[pos] = Near /\ u_ret.px[pos][4] = 0
    /\ u_ret.px[<<0, 0>>] = Far

\* C16: at any time images_processed is the number of process_image calls
\* that have ended, and average_processing_time (total / count) is the
\* mean of the processing times of those calls.
RECURSIVE TotalTime(_)
TotalTime(cs) ==
    IF cs = {} THEN 0
    ELSE LET c == CHOOSE x \in cs : TRUE
         IN  c.time + TotalTime(cs \ {c})

StatsCountCalls ==
    /\ stats.images_processed = Cardinality(calls)
    /\ stats.total_processing_time = TotalTime(calls)
    /\ calls # {} =>
          stats.average_processing_time = <<TotalTime(calls), Cardinality(calls)>>

\* C17: when two threads have both finished process_image on the same
\* instance, images_processed has grown by 2 and total_processing_time by
\* the sum of the two processing times.
AtomicStats ==
    (\A t \in Threads : th_pc[t] = "done") =>
        /\ stats.images_processed = InitStats.images_processed + 2
        /\ stats.total_processing_time =
              InitStats.total_processing_time + th_time[1] + th_time[2]

\* C20: _upload_with_retries makes at most MAX_RETRIES attempts; a 403 or
\* a 404 ends the call at once; after a 429, a 5xx or another exception
\* that is not on the last attempt it waits and tries again; the call
\* returns a URL or raises RuntimeError, and never returns None.
UploadRetries ==
    UnitDone("_upload_with_retries") =>
        /\ u_ret.attempts >= 1 /\ u_ret.attempts <= Drive_MAX_RETRIES
        /\ \A i \in 1 .. u_ret.attempts :
              u_arg.responses[i] \in {"h403", "h404"} =>
                  u_ret.attempts = i /\ u_ret.exc = "RuntimeError"
        /\ \A i \in 1 .. Min(u_ret.attempts, Drive_MAX_RETRIES - 1) :
              u_arg.responses[i] \in {"h429", "h500", "exc", "noid"} =>
                  u_ret.attempts > i /\ u_ret.waits[i] > 0
        /\ Len(u_ret.waits) = u_ret.attempts - 1
        /\ \/ u_ret.exc = "none" /\ u_ret.url = "webViewLink"
           \/ u_ret.exc = "RuntimeError"

\* A rate limit and a server error were waited out and the third attempt
\* stored the file; the waits were 1 s and 4 s
UploadRetriesWitness ==
    /\ UnitDone("_upload_with_retries")
    /\ u_arg.responses = <<"h500", "h429", "ok">>
    /\ u_ret.exc = "none"
    /\ u_ret.attempts = Drive_MAX_RETRIES
    /\ u_ret.waits = <<1, 4>>

\* C18: whenever upload_image stores a file whose requested name is
\* already in the folder, the name it is stored under differs from the
\* name of every file the folder held.
NameInFolder(name, files) == \E i \in DOMAIN files : files[i] = name

RenamedOnCollision ==
    (up_last.exc = "none" /\ NameInFolder(up_last.requested, up_last.before))
        => ~NameInFolder(up_last.final, up_last.before)

\* C21: get_or_create_folder returns a folder ID or raises RuntimeError,
\* whatever the Drive API does while the folder is listed and created; it
\* never returns None.
FolderIdOrError ==
    UnitDone("get_or_create_folder") =>
        \/ u_ret.exc = "none" /\ u_ret.id = "folder_id"
        \/ u_ret.exc = "RuntimeError"

\* C22: once more than TEMP_TTL_SECONDS have passed since a token was
\* stored, GET /download/{token} does not serve its data: a download that
\* answers 200 serves a token stored at most TEMP_TTL_SECONDS before the
\* request. (Between a download and the next request the store does not
\* change, so the entry served is still in temp_downloads.)
ExpiredLinkNotServed ==
    (web_resp.resp.route = "download" /\ web_resp.resp.status = 200) =>
        \A i \in 1 .. Len(temp_downloads) :
            temp_downloads[i].token = web_resp.resp.data =>
                ~Expired(temp_downloads[i], web_resp.at)

\* The bytes upload_images has read when it has read file idx: a file whose
\* read raises gives none
RECURSIVE BytesRead(_, _)
BytesRead(files, idx) ==
    IF idx = 0 THEN 0
    ELSE BytesRead(files, idx - 1) +
         (IF files[idx].outcome = "read_raises" THEN 0 ELSE files[idx].size)

\* C23: process_image is never called on a file longer than MAX_FILE_SIZE,
\* never once the bytes read in the request exceed MAX_TOTAL_SIZE, and never
\* for a request of more than 10 files.
SizeLimitsEnforced ==
    UnitDone("upload_images") =>
        \A i \in 1 .. Len(u_ret.resp.process_image) :
            LET call == u_ret.resp.process_image[i]
            IN  /\ u_arg.req.files[call.index].size <= MAX_FILE_SIZE
                /\ BytesRead(u_arg.req.files, call.index) <= MAX_TOTAL_SIZE
                /\ call.files <= MAX_FILES

\* A request is cut short by the total limit after one file was processed
\* and a longer one was turned down
SizeLimitsWitness ==
    /\ UnitDone("upload_images")
    /\ u_ret.resp.status = 413
    /\ u_ret.resp.detail = "Total size too large"
    /\ Len(u_ret.resp.process_image) = 1
    /\ \E i \in 1 .. Len(u_ret.resp.results) :
          u_ret.resp.results[i].error = "File too large"

\* The last request was an upload that stored a token (a result without a
\* download link has url 0)
JustStored ==
    /\ web_resp.resp.route = "upload"
    /\ web_resp.resp.status = 200
    /\ next_token > 0
    /\ \E i \in 1 .. Len(web_resp.resp.results) :
          web_resp.resp.results[i].url = next_token

\* C24: the store never holds more than TEMP_MAX_ITEMS entries; the tokens
\* it holds are the most recently given ones, in the order they were given
\* (so whatever was dropped is older than everything kept); and right after
\* a store the new token is held and no entry is older than
\* TEMP_TTL_SECONDS.
TempStoreBounded ==
    /\ Len(temp_downloads) <= TEMP_MAX_ITEMS
    /\ \A i \in 1 .. Len(temp_downloads) :
          /\ temp_downloads[i].token = next_token - Len(temp_downloads) + i
          /\ i > 1 => temp_downloads[i - 1].ts <= temp_downloads[i].ts
    /\ JustStored =>
          /\ Len(temp_downloads) > 0
          /\ temp_downloads[Len(temp_downloads)].token = next_token
          /\ \A i \in 1 .. Len(temp_downloads) :
                ~Expired(temp_downloads[i], web_resp.at)

\* A store into a full store of entries that have not expired: the oldest
\* one has gone, the others of its second are still held
TempStoreWitness ==
    /\ JustStored
    /\ next_token = TEMP_MAX_ITEMS + 1
    /\ Len(temp_downloads) = TEMP_MAX_ITEMS
    /\ temp_downloads[1] = [token |-> 2, ts |-> 0]
    /\ web_resp.at > 0

\* A store after the life of the earlier entries: only the new one is held
TempStoreExpiryWitness ==
    /\ JustStored
    /\ next_token = TEMP_MAX_ITEMS
    /\ Len(temp_downloads) = 1

ProtectedRoutes == {"landing", "app_view", "upload"}

\* The last request was to a protected route and got past touch_session
Proceeded ==
    /\ web_resp.resp.route \in ProtectedRoutes
    /\ IF web_resp.resp.route = "upload"
       THEN web_resp.resp.status # 401
       ELSE web_resp.resp.status = 200

\* C25: a protected route proceeds only for a session with auth set whose
\* last_seen is at most SESSION_MAX_AGE_MIN minutes old, and it refreshes
\* last_seen; a protected route that does not proceed leaves no auth
\* behind; logout clears the session; a login with wrong credentials leaves
\* the session as it was; auth appears only through a successful login.
SessionGate ==
    /\ Proceeded =>
          /\ web_resp.before.auth
          /\ web_resp.before.has_last_seen
          /\ web_resp.at - web_resp.before.last_seen <= SessionMaxAge
          /\ session = login_user(web_resp.at)
    /\ (web_resp.resp.route \in ProtectedRoutes /\ ~Proceeded) =>
          /\ ~session.auth
          /\ web_resp.before.auth => session = ClearedSession
    /\ web_resp.resp.route = "logout" => session = ClearedSession
    /\ (web_resp.resp.route = "login_submit" /\ web_resp.resp.status = 401)
          => session = web_resp.before
    /\ (session.auth /\ ~web_resp.before.auth) =>
          /\ web_resp.resp.route = "login_submit"
          /\ web_resp.resp.status \in {200, 303}

\* A logged-in browser comes back after more than two hours: the route
\* does not proceed and the session is cleared
SessionGateWitness ==
    /\ web_resp.resp.route \in ProtectedRoutes
    /\ ~Proceeded
    /\ web_resp.before.auth
    /\ web_resp.at - web_resp.before.last_seen > SessionMaxAge
    /\ session = ClearedSession

\* C26: in a 200 response of upload_images results has one entry for each
\* file of the request, in the order of the files, a success exactly for the
\* files that were read, were not too long, and were processed, saved and
\* delivered; and successful + failed = len(results) = total.
OneEntryPerFile ==
    (UnitDone("upload_images") /\ u_ret.resp.status = 200) =>
        LET files == u_arg.req.files
            results == u_ret.resp.results
        IN  /\ Len(results) = Len(files)
            /\ u_ret.resp.total = Len(files)
            /\ u_ret.resp.successful + u_ret.resp.failed = Len(results)
            /\ \A i \in 1 .. Len(results) :
                  results[i].status \in {"success", "error"}
            /\ \A i \in 1 .. Len(files) :
                  results[i].status = "success" <=>
                      /\ files[i].outcome = "ok"
                      /\ files[i].size <= MAX_FILE_SIZE

\* A file too long, a file that fails in processing and a file that is
\* stored for download, in one request
OneEntryWitness ==
    /\ UnitDone("upload_images")
    /\ u_ret.resp.status = 200
    /\ ~u_arg.req.drive_available
    /\ Len(u_ret.resp.results) = 3
    /\ u_ret.resp.results[1].error = "File too large"
    /\ u_ret.resp.results[2].error = "Processing failed"
    /\ u_ret.resp.results[3].status = "success"
    /\ u_ret.resp.failed = 2

\* The call invoked _remove_background_api
ApiInvoked(c) == c.removal.strategy = "remote" \/ c.removal.api # "none"

\* C27: api_calls_successful is the number of _remove_background_api
\* invocations whose image went on into the pipeline (so no call that used
\* the local strategy is among them), and every invocation has incremented
\* exactly one of api_calls_successful and api_calls_failed.
ApiCountsReturnedImages ==
    /\ stats.api_calls_successful =
          Cardinality({ c \in calls : c.removal.strategy = "remote" })
    /\ stats.api_calls_successful + stats.api_calls_failed =
          Cardinality({ c \in calls : ApiInvoked(c) })

\* C28: in every composed output the foreground is no larger than
\* FRAME_W x FRAME_H and is pasted centred in the frame region below the
\* banner: it stays clear of the side padding, of the band of the banner
\* and of the bottom padding, and its left and right (upper and lower)
\* margins in the frame differ by at most the pixel the halving drops.
ForegroundInFrame ==
    final_image.mode = "RGB" =>
        LET img_x == final_image.img_pos[1]
            img_y == final_image.img_pos[2]
            fg == final_image.fg
            top == TOP_PAD + final_image.banner_height
            left_margin == img_x - SIDE_PAD
            right_margin == SIDE_PAD + FRAME_W - (img_x + fg.w)
            upper_margin == img_y - top
            lower_margin == top + FRAME_H - (img_y + fg.h)
        IN  /\ fg.w <= FRAME_W /\ fg.h <= FRAME_H
            /\ SIDE_PAD <= img_x
            /\ img_x + fg.w <= SIDE_PAD + FRAME_W
            /\ top <= img_y
            /\ img_y + fg.h <= top + FRAME_H
            /\ img_y + fg.h <= final_image.h - BOTTOM_PAD
            /\ right_margin - left_margin \in {0, 1}
            /\ lower_margin - upper_margin \in {0, 1}

\* A photo larger than the frame was scaled down: it fills the frame in
\* one direction, to the pixel that truncation may drop, and floats in the
\* other
ForegroundInFrameWitness ==
    /\ pc = "done"
    /\ final_image.mode = "RGB"
    /\ image_file.w > FRAME_W
    /\ final_image.fg.w < image_file.w
    /\ \/ /\ final_image.fg.w >= FRAME_W - 1
          /\ final_image.img_pos[2] >
                TOP_PAD + final_image.banner_height + 1
       \/ /\ final_image.fg.h >= FRAME_H - 1
          /\ final_image.img_pos[1] > SIDE_PAD + 1

====
